---- MODULE Spec2Model ----
(***************************************************************************)
(* Selection & context resolution engine of the tapword translator.        *)
(*                                                                         *)
(* Part I   sentence expansion (contextExtractorV2.expandRangeToSentence)  *)
(* Part II  selection validation (selectionValidator, languageValidator)   *)
(*                                                                         *)
(* Characters are one-character strings standing for their class:         *)
(*   "a" a Latin letter, "1" a digit, " " a space, "\n" a line break,      *)
(*   "." a sentence terminator (. ? ! and the CJK forms), "," a soft       *)
(*   terminator (, ; : and the CJK forms), "H" a Han character, "K" a      *)
(*   Kana character, "'" and "-" the word-internal punctuation, "$" a      *)
(*   symbol.                                                               *)
(* Text offsets are the 0-based offsets of the source: offset o of a text  *)
(* leaf lies between its characters o and o+1 (1-based).                   *)
(***************************************************************************)
EXTENDS Integers, Sequences, FiniteSets, TLC

VARIABLES
    doc,         \* children of the boundary root: [kind, text] in document order
    input,       \* the Range handed to expandRangeToSentence: [s, e] boundary points
    pc,          \* position inside expandRangeToSentence
    root,        \* text leaves the local tree walker visits: [lo, hi]
    startPos, endPos,      \* normalized boundaries
    hardStart, hardEnd,    \* the hard limits
    safeStart, safeEnd,    \* the current result boundaries
    pass,        \* 1: expanding the selection, 2: expanding the result again
    firstResult, \* the range returned by pass 1
    call,        \* the arguments and the environment of one validator call
    dom,         \* live state of the selection's container element
    dom0,        \* the state of that element when the call started
    vpc,         \* position inside the validator call
    vresult,     \* the ValidationResult the call resolved with
    gates,       \* the gates the call has evaluated, in evaluation order
    detectCalls, \* calls of detectSourceLanguageAsync made so far
    detected,    \* what the detection call resolved with
    answer,      \* what shouldTriggerTranslationAsync resolved with
    detectArg,   \* the text handed to detectSourceLanguageAsync
    tap,         \* the point of a tap: the caret the browser reports for it
    word,        \* what getWordRangeFromPoint returned for the tap
    gesture,     \* the handler run of each user gesture
    icon,        \* the translation icon on the page
    translated,  \* the gestures that triggered a translation
    colour,      \* the arguments and results of addOpacityToHex
    player,      \* the offscreen document's audio player
    worker       \* the background worker's offscreen manager

evars == <<doc, input, pc, root, startPos, endPos, hardStart, hardEnd,
           safeStart, safeEnd, pass, firstResult>>

vvars == <<call, dom, dom0, vpc, vresult, gates, detectCalls, detected>>

xvars == <<answer, detectArg, tap, word>>

yvars == <<gesture, icon, translated, colour, player, worker>>

vars == <<evars, vvars, xvars, yvars>>

(***************************************************************************)
(* Bounds of the explored inputs.                                          *)
(***************************************************************************)
MaxTextLen == 5      \* characters of a single-leaf document
MaxLeaves == 2       \* children of the root in a multi-leaf document

(***************************************************************************)
(* Program constants (contextExtractorV2).                                 *)
(***************************************************************************)
DEFAULT_TERMINATORS == {"."}
DEFAULT_HARD_TERMINATORS == {".", "\n"}
DEFAULT_SOFT_TERMINATORS == {","}
MIN_WORD_COUNT == 3
MIN_CJK_CHARS == 5

\* CJK_PATTERN: the Han, Hiragana/Katakana and Hangul blocks
CJK_PATTERN == {"H", "K", "G"}
\* \s of the regular expressions
WHITESPACE == {" ", "\n"}
\* [a-zA-Z0-9]
ALNUM == {"a", "1"}

\* "no position" / null
NoPos == [node |-> 0, offset |-> 0]

Min(S) == CHOOSE x \in S : \A y \in S : x <= y
Max(S) == CHOOSE x \in S : \A y \in S : x >= y

(***************************************************************************)
(* The document: the boundary root R and its children.  A child is a text  *)
(* node ("text"), an inline element holding one text node ("inline") or a  *)
(* block-level element holding one text node ("block", a <p> in a <div>).  *)
(* Boundary points: a Range boundary is (container, offset) with the       *)
(* container a text leaf, a wrapper element or the root.                    *)
(***************************************************************************)
TextPoint(i, o) == [c |-> "text", i |-> i, o |-> o]
WrapPoint(i, k) == [c |-> "wrap", i |-> i, o |-> k]
RootPoint(k)    == [c |-> "root", i |-> 0, o |-> k]

TextPointsOf(d) ==
    UNION {{TextPoint(i, o) : o \in 0..Len(d[i].text)} : i \in 1..Len(d)}

PointsOf(d) ==
    TextPointsOf(d)
    \cup {WrapPoint(i, k) : i \in {j \in 1..Len(d) : d[j].kind # "text"}, k \in 0..1}
    \cup {RootPoint(k) : k \in 0..Len(d)}

\* Document order of boundary points (DOM boundary-point comparison):
\* (R,k-1) < (wrap_k,0) < (text_k,0..len) < (wrap_k,1) < (R,k).
Rank(p) ==
    CASE p.c = "root" -> <<p.o + 1, 0, 0>>
      [] p.c = "wrap" -> <<p.i, IF p.o = 0 THEN 1 ELSE 3, 0>>
      [] OTHER        -> <<p.i, 2, p.o>>

RankLess(a, b) ==
    \/ a[1] < b[1]
    \/ a[1] = b[1] /\ a[2] < b[2]
    \/ a[1] = b[1] /\ a[2] = b[2] /\ a[3] < b[3]

PointLE(p, q) == ~RankLess(Rank(q), Rank(p))

PosPoint(pos) == TextPoint(pos.node, pos.offset)

(***************************************************************************)
(* String helpers.                                                         *)
(***************************************************************************)
\* s.substring(from, to) with 0-based offsets
substring(s, from, to) == SubSeq(s, from + 1, to)

\* firstTerminatorIndex: the least indexOf over the terminators, -1 if none
firstTerminatorIndex(s, terminators) ==
    LET hits == {j \in 1..Len(s) : s[j] \in terminators}
    IN  IF hits = {} THEN -1 ELSE Min(hits) - 1

\* lastTerminatorIndex: the greatest lastIndexOf over the terminators, -1 if none
lastTerminatorIndex(s, terminators) ==
    LET hits == {j \in 1..Len(s) : s[j] \in terminators}
    IN  IF hits = {} THEN -1 ELSE Max(hits) - 1

\* s.replace(/\s+/g, " ")
RECURSIVE collapseFrom(_, _)
collapseFrom(s, j) ==
    IF j > Len(s) THEN <<>>
    ELSE IF s[j] \in WHITESPACE
         THEN IF j > 1 /\ s[j - 1] \in WHITESPACE
              THEN collapseFrom(s, j + 1)
              ELSE <<" ">> \o collapseFrom(s, j + 1)
         ELSE <<s[j]>> \o collapseFrom(s, j + 1)

collapseWhitespace(s) == collapseFrom(s, 1)

\* s.trim()
trim(s) ==
    LET n == Len(s)
        \* whitespace characters at the front and at the back
        lead == CHOOSE j \in 0..n :
                    /\ \A k \in 1..j : s[k] \in WHITESPACE
                    /\ j < n => s[j + 1] \notin WHITESPACE
        trail == CHOOSE j \in 0..n :
                    /\ \A k \in (n - j + 1)..n : s[k] \in WHITESPACE
                    /\ j < n => s[n - j] \notin WHITESPACE
    IN  IF lead = n THEN <<>> ELSE SubSeq(s, lead + 1, n - trail)

\* trimmed.split(/\s+/).filter(word => /[a-zA-Z0-9]/.test(word)).length
wordCount(s) ==
    Cardinality({j \in 1..Len(s) :
        /\ s[j] \notin WHITESPACE
        /\ (j = 1 \/ s[j - 1] \in WHITESPACE)
        /\ \E k \in j..Len(s) :
              /\ s[k] \in ALNUM
              /\ \A m \in j..k : s[m] \notin WHITESPACE})

isSegmentShort(text) ==
    LET trimmed == trim(text)
        hasCJK == \E j \in 1..Len(trimmed) : trimmed[j] \in CJK_PATTERN
    IN  IF trimmed = <<>> THEN TRUE
        ELSE IF hasCJK THEN Len(trimmed) < MIN_CJK_CHARS
        ELSE wordCount(trimmed) < MIN_WORD_COUNT

(***************************************************************************)
(* Tree walking inside the root scope r = [lo, hi] (leaf indices).         *)
(* A text leaf is named by its index; 0 is null.                           *)
(***************************************************************************)
textLength(t) == Len(doc[t].text)

getFirstTextNode(r) == r.lo
getLastTextNode(r) == r.hi

getPrevTextNode(r, from) == IF from - 1 >= r.lo THEN from - 1 ELSE 0
getNextTextNode(r, from) == IF from + 1 <= r.hi THEN from + 1 ELSE 0

\* hasBlockInPath(node, common): a block-level element between the leaf and
\* the common ancestor (the root, for two distinct leaves)
hasBlockInPath(t) == doc[t].kind = "block"

isBlockBoundaryCrossed(a, b) == hasBlockInPath(a) \/ hasBlockInPath(b)

comparePositions(a, b) ==
    IF a.node = b.node THEN a.offset - b.offset
    ELSE IF a.node < b.node THEN -1 ELSE 1

\* the forward loop of findSentenceEndWithin, entered with prev = the last
\* leaf inspected
RECURSIVE scanForward(_, _, _)
scanForward(r, prev, terminators) ==
    LET cur == getNextTextNode(r, prev)
    IN  IF cur = 0
        THEN [node |-> getLastTextNode(r), offset |-> textLength(getLastTextNode(r))]
        ELSE IF isBlockBoundaryCrossed(cur, prev)
        THEN [node |-> prev, offset |-> textLength(prev)]
        ELSE LET j == firstTerminatorIndex(doc[cur].text, terminators)
             IN  IF j >= 0 THEN [node |-> cur, offset |-> j + 1]
                 ELSE scanForward(r, cur, terminators)

findSentenceEndWithin(r, node, offset, terminators) ==
    LET text == doc[node].text
        after == substring(text, offset, Len(text))
        idx == firstTerminatorIndex(after, terminators)
    IN  IF idx >= 0 THEN [node |-> node, offset |-> offset + idx + 1]
        ELSE scanForward(r, node, terminators)

RECURSIVE scanBackward(_, _, _)
scanBackward(r, prev, terminators) ==
    LET cur == getPrevTextNode(r, prev)
    IN  IF cur = 0
        THEN [node |-> getFirstTextNode(r), offset |-> 0]
        ELSE IF isBlockBoundaryCrossed(cur, prev)
        THEN [node |-> prev, offset |-> 0]
        ELSE LET j == lastTerminatorIndex(doc[cur].text, terminators)
             IN  IF j >= 0 THEN [node |-> cur, offset |-> j + 1]
                 ELSE scanBackward(r, cur, terminators)

findSentenceStartWithin(r, node, offset, terminators) ==
    LET before == substring(doc[node].text, 0, offset)
        idx == lastTerminatorIndex(before, terminators)
    IN  IF idx >= 0 THEN [node |-> node, offset |-> idx + 1]
        ELSE scanBackward(r, node, terminators)

\* domSanitizer.getCleanTextFromRange of the range start..end, then
\* collapseWhitespace: the characters between the two positions
RECURSIVE textFrom(_, _, _)
textFrom(t, from, end) ==
    IF t = end.node THEN substring(doc[t].text, from, end.offset)
    ELSE substring(doc[t].text, from, textLength(t)) \o textFrom(t + 1, 0, end)

getCleanTextBetween(start, end) ==
    IF comparePositions(start, end) > 0 THEN <<>>
    ELSE textFrom(start.node, start.offset, end)

extractTextBetween(start, end) == collapseWhitespace(getCleanTextBetween(start, end))

(***************************************************************************)
(* findBoundaryRoot: the nearest boundary-tag ancestor of the range's      *)
(* common ancestor.  A range inside one block child is scoped to that      *)
(* child; every other range is scoped to the root R.                       *)
(***************************************************************************)
findBoundaryRoot(s, e) ==
    IF s.c # "root" /\ e.c # "root" /\ s.i = e.i /\ doc[s.i].kind = "block"
    THEN [lo |-> s.i, hi |-> s.i]
    ELSE [lo |-> 1, hi |-> Len(doc)]

\* normalizeToTextPosition(root, node, offset)
normalizeToTextPosition(r, p) ==
    IF p.c = "text"
    THEN [node |-> p.i, offset |-> Min({Max({p.o, 0}), textLength(p.i)})]
    ELSE LET el == IF p.c = "wrap" THEN [lo |-> p.i, hi |-> p.i] ELSE r
             childCount == IF p.c = "wrap" THEN 1 ELSE Len(doc)
         IN  IF p.o = 0
             THEN [node |-> getFirstTextNode(el), offset |-> 0]
             ELSE IF p.o >= childCount
             THEN [node |-> getLastTextNode(el), offset |-> textLength(getLastTextNode(el))]
             \* fallback getNextTextNode(root, node): the walker set on the
             \* element steps to the first text node below it
             ELSE [node |-> getFirstTextNode(el), offset |-> 0]

(***************************************************************************)
(* expandRangeToSentence(range), with the default options.                 *)
(***************************************************************************)
\* the hard set without the line break (the set extractContextV2 uses)
hardTerminatorsNoLineBreak == DEFAULT_TERMINATORS

hardTerminators == DEFAULT_HARD_TERMINATORS
softTerminators == DEFAULT_SOFT_TERMINATORS
allTerminators == hardTerminators \cup softTerminators

\* "Clamp soft boundaries to stay within hard limits"
clampStart(soft, hard) == IF comparePositions(soft, hard) < 0 THEN hard ELSE soft
clampEnd(soft, hard) == IF comparePositions(soft, hard) > 0 THEN hard ELSE soft

\* the range a finished call returns
result == [s |-> PosPoint(safeStart), e |-> PosPoint(safeEnd)]

\* lines 63-99: scope, normalization, hard limits, soft limits, clamp
Begin ==
    /\ pc = "start"
    /\ LET r == findBoundaryRoot(input.s, input.e)
           sp == normalizeToTextPosition(r, input.s)
           ep == normalizeToTextPosition(r, input.e)
           hs == findSentenceStartWithin(r, sp.node, sp.offset, hardTerminators)
           he == findSentenceEndWithin(r, ep.node, ep.offset, hardTerminators)
           ss == findSentenceStartWithin(r, sp.node, sp.offset, allTerminators)
           se == findSentenceEndWithin(r, ep.node, ep.offset, allTerminators)
       IN  /\ root' = r
           /\ startPos' = sp
           /\ endPos' = ep
           /\ hardStart' = hs
           /\ hardEnd' = he
           /\ safeStart' = clampStart(ss, hs)
           /\ safeEnd' = clampEnd(se, he)
    /\ pc' = "right"
    /\ UNCHANGED <<doc, input, pass, firstResult, vvars, xvars, yvars>>

\* the right loop leaving the end where it is when the search passes the
\* hard end or makes no progress
ExpandRightKeepsEnd ==
    /\ pc = "right"
    /\ LET text == extractTextBetween(safeStart, safeEnd)
           nextEnd == findSentenceEndWithin(root, safeEnd.node, safeEnd.offset, allTerminators)
       IN  IF ~isSegmentShort(text) \/ comparePositions(safeEnd, hardEnd) >= 0
           THEN /\ pc' = "left"
                /\ UNCHANGED safeEnd
           ELSE IF comparePositions(nextEnd, hardEnd) >= 0 \/ comparePositions(nextEnd, safeEnd) <= 0
           THEN /\ pc' = "left"
                /\ UNCHANGED safeEnd
           ELSE /\ safeEnd' = nextEnd
                /\ pc' = "right"
    /\ UNCHANGED <<doc, input, root, startPos, endPos, hardStart, hardEnd,
                   safeStart, pass, firstResult, vvars, xvars, yvars>>

\* the right loop going round without moving the end
ExpandRightStalls ==
    /\ pc = "right"
    /\ LET text == extractTextBetween(safeStart, safeEnd)
           nextEnd == findSentenceEndWithin(root, safeEnd.node, safeEnd.offset, allTerminators)
       IN  IF ~isSegmentShort(text) \/ comparePositions(safeEnd, hardEnd) >= 0
           THEN /\ pc' = "left"
                /\ UNCHANGED safeEnd
           ELSE IF comparePositions(nextEnd, hardEnd) >= 0 \/ comparePositions(nextEnd, safeEnd) <= 0
           THEN /\ safeEnd' = hardEnd
                /\ pc' = "left"
           ELSE /\ pc' = "right"
                /\ UNCHANGED safeEnd
    /\ UNCHANGED <<doc, input, root, startPos, endPos, hardStart, hardEnd,
                   safeStart, pass, firstResult, vvars, xvars, yvars>>

\* lines 102-124: one iteration of the right expansion loop
ExpandRight ==
    /\ pc = "right"
    /\ LET text == extractTextBetween(safeStart, safeEnd)
           nextEnd == findSentenceEndWithin(root, safeEnd.node, safeEnd.offset, allTerminators)
       IN  IF ~isSegmentShort(text) \/ comparePositions(safeEnd, hardEnd) >= 0
           THEN /\ pc' = "left"
                /\ UNCHANGED safeEnd
           ELSE IF comparePositions(nextEnd, hardEnd) >= 0
           THEN /\ safeEnd' = hardEnd
                /\ pc' = "left"
           ELSE IF comparePositions(nextEnd, safeEnd) <= 0
           THEN /\ safeEnd' = hardEnd
                /\ pc' = "left"
           ELSE /\ safeEnd' = nextEnd
                /\ pc' = "right"
    /\ UNCHANGED <<doc, input, root, startPos, endPos, hardStart, hardEnd,
                   safeStart, pass, firstResult, vvars, xvars, yvars>>

\* lines 140-154: where the backward search starts; null when there is no
\* previous text node
leftSearchFrom(r, from) ==
    IF from.offset > 0 THEN [node |-> from.node, offset |-> from.offset - 1]
    ELSE LET prev == getPrevTextNode(r, from.node)
         IN  IF prev = 0 THEN NoPos ELSE [node |-> prev, offset |-> textLength(prev)]

\* the left loop leaving the start where it is when the search passes the
\* hard start, finds no previous text node or makes no progress
ExpandLeftKeepsStart ==
    /\ pc = "left"
    /\ LET text == extractTextBetween(safeStart, safeEnd)
           search == leftSearchFrom(root, safeStart)
           prevStart == findSentenceStartWithin(root, search.node, search.offset, allTerminators)
       IN  IF ~isSegmentShort(text) \/ comparePositions(safeStart, hardStart) <= 0
           THEN /\ pc' = "done"
                /\ UNCHANGED safeStart
           ELSE IF search = NoPos
           THEN /\ pc' = "done"
                /\ UNCHANGED safeStart
           ELSE IF comparePositions(prevStart, hardStart) <= 0
                   \/ comparePositions(prevStart, safeStart) >= 0
           THEN /\ pc' = "done"
                /\ UNCHANGED safeStart
           ELSE /\ safeStart' = prevStart
                /\ pc' = "left"
    /\ UNCHANGED <<doc, input, root, startPos, endPos, hardStart, hardEnd,
                   safeEnd, pass, firstResult, vvars, xvars, yvars>>

\* lines 128-170: one iteration of the left expansion loop
ExpandLeft ==
    /\ pc = "left"
    /\ LET text == extractTextBetween(safeStart, safeEnd)
           search == leftSearchFrom(root, safeStart)
           prevStart == findSentenceStartWithin(root, search.node, search.offset, allTerminators)
       IN  IF ~isSegmentShort(text) \/ comparePositions(safeStart, hardStart) <= 0
           THEN /\ pc' = "done"
                /\ UNCHANGED safeStart
           ELSE IF search = NoPos
           THEN /\ safeStart' = hardStart
                /\ pc' = "done"
           ELSE IF comparePositions(prevStart, hardStart) <= 0
           THEN /\ safeStart' = hardStart
                /\ pc' = "done"
           ELSE IF comparePositions(prevStart, safeStart) >= 0
           THEN /\ safeStart' = hardStart
                /\ pc' = "done"
           ELSE /\ safeStart' = prevStart
                /\ pc' = "left"
    /\ UNCHANGED <<doc, input, root, startPos, endPos, hardStart, hardEnd,
                   safeEnd, pass, firstResult, vvars, xvars, yvars>>

\* the caller hands the returned range to expandRangeToSentence again
ExpandAgain ==
    /\ pc = "done"
    /\ pass = 1
    /\ firstResult' = result
    /\ input' = result
    /\ pass' = 2
    /\ pc' = "start"
    /\ root' = [lo |-> 0, hi |-> 0]
    /\ startPos' = NoPos
    /\ endPos' = NoPos
    /\ hardStart' = NoPos
    /\ hardEnd' = NoPos
    /\ safeStart' = NoPos
    /\ safeEnd' = NoPos
    /\ UNCHANGED <<doc, vvars, xvars, yvars>>

(***************************************************************************)
(* Values of a validator call that has not produced anything yet.          *)
(***************************************************************************)
\* no ValidationResult
NoVerdict ==
    [isValid |-> FALSE, text |-> <<>>, range |-> FALSE, reason |-> "",
     shouldCleanup |-> FALSE]

\* detectSourceLanguageAsync has not resolved
NoDetection == [kind |-> "none", code |-> <<>>]

\* an element outside editable content and outside the extension's UI
PlainDom == [editable |-> FALSE, ui |-> "none"]

\* no validator call is running
ValidateIdle ==
    /\ call = [fn |-> "none"]
    /\ dom = PlainDom
    /\ dom0 = PlainDom
    /\ vpc = "idle"
    /\ vresult = NoVerdict
    /\ gates = <<>>
    /\ detectCalls = 0
    /\ detected = NoDetection

\* shouldTriggerTranslationAsync has not resolved
NoAnswer == [resolved |-> FALSE, value |-> FALSE]

\* getWordRangeFromPoint has not returned
NoWord == [returned |-> FALSE, found |-> FALSE, start |-> 0, end |-> 0]

\* no direct classifier call and no tap is being resolved
DirectIdle ==
    /\ answer = NoAnswer
    /\ detectArg = <<>>
    /\ tap = [container |-> "none"]
    /\ word = NoWord

\* no gesture is handled, no colour is converted, no audio is played
RestIdle ==
    /\ gesture = <<>>
    /\ icon = "none"
    /\ translated = {}
    /\ colour = <<>>
    /\ player = <<>>
    /\ worker = <<>>

(***************************************************************************)
(* The explored documents and selections.                                  *)
(***************************************************************************)
\* character classes a single-leaf document is written in
Alphabets == {{"a", " ", ",", "."}, {"H", ",", "."}, {"a", "\n", ","}}

Texts == UNION {UNION {[1..n -> A] : n \in 0..MaxTextLen} : A \in Alphabets}

\* the leaves of a multi-leaf document
LeafTexts == {<<"a", " ">>, <<"a", ".">>, <<",", "a">>, <<"a", ".", "a">>}
Kinds == {"text", "inline", "block"}

Children == [kind : Kinds, text : LeafTexts]

MultiLeafDocs == UNION {[1..n -> Children] : n \in 1..MaxLeaves}

ExpandIdle ==
    /\ pc = "start"
    /\ pass = 1
    /\ root = [lo |-> 0, hi |-> 0]
    /\ startPos = NoPos
    /\ endPos = NoPos
    /\ hardStart = NoPos
    /\ hardEnd = NoPos
    /\ safeStart = NoPos
    /\ safeEnd = NoPos
    /\ firstResult = [s |-> TextPoint(0, 0), e |-> TextPoint(0, 0)]

\* a single text node in the root, any non-inverted text selection
InitText ==
    /\ doc \in {<<[kind |-> "text", text |-> t]>> : t \in Texts}
    /\ input \in {[s |-> p, e |-> q] : p, q \in TextPointsOf(doc)}
    /\ PointLE(input.s, input.e)
    /\ ExpandIdle
    /\ ValidateIdle
    /\ DirectIdle
    /\ RestIdle

\* several children, any non-inverted range over text and element containers
InitDom ==
    /\ doc \in MultiLeafDocs
    /\ input \in {[s |-> p, e |-> q] : p, q \in PointsOf(doc)}
    /\ PointLE(input.s, input.e)
    /\ ExpandIdle
    /\ ValidateIdle
    /\ DirectIdle
    /\ RestIdle

InitExpand == InitText \/ InitDom

NextExpand == Begin \/ ExpandRight \/ ExpandLeft

SpecExpand == InitExpand /\ [][NextExpand]_vars

NextReExpand == Begin \/ ExpandRight \/ ExpandLeft \/ ExpandAgain

SpecReExpand == InitExpand /\ [][NextReExpand]_vars

(***************************************************************************)
(* Claims about expandRangeToSentence.                                     *)
(***************************************************************************)
\* characters of the document before a boundary point
RECURSIVE charsBefore(_)
charsBefore(i) == IF i = 0 THEN 0 ELSE charsBefore(i - 1) + Len(doc[i].text)

CharIndex(p) ==
    CASE p.c = "root" -> charsBefore(p.o)
      [] p.c = "wrap" -> charsBefore(p.i - 1) + (IF p.o = 0 THEN 0 ELSE Len(doc[p.i].text))
      [] OTHER        -> charsBefore(p.i - 1) + p.o

\* C1: expanding the range returned by expandRangeToSentence once more
\* returns a range with the same start and end positions.
C1_Idempotent ==
    (pc = "done" /\ pass = 2) => result = firstResult

\* C2: the returned range starts at or before the input's start and ends at
\* or after the input's end, for text and for element containers.
C2_ContainsInput ==
    (pc = "done" /\ pass = 1) =>
        /\ CharIndex(result.s) <= CharIndex(input.s)
        /\ CharIndex(input.e) <= CharIndex(result.e)

\* the hard limits of the claim: the scans from the normalized input
\* boundaries that stop at sentence terminators and line breaks only
RefHardStart ==
    findSentenceStartWithin(root, startPos.node, startPos.offset, DEFAULT_HARD_TERMINATORS)
RefHardEnd ==
    findSentenceEndWithin(root, endPos.node, endPos.offset, DEFAULT_HARD_TERMINATORS)

PosLE(a, b) == a.node < b.node \/ (a.node = b.node /\ a.offset <= b.offset)

CHINESE_RATIO_THRESHOLD == [num |-> 5, den |-> 100]

REGEX_KANA == {"K"}
REGEX_HANGUL == {"G"}
REGEX_CYRILLIC == {"C"}
REGEX_HAN == {"H"}

\* \d, \p{P} and \p{S}
DIGITS == {"1"}
PUNCTUATION == {".", ",", "'", "-"}
SYMBOLS == {"$"}

\* a test that asks every character of a non-empty text to be in the class
testClassWholeText(class, text) ==
    Len(text) > 0 /\ \A j \in 1..Len(text) : text[j] \in class

\* regex.test(text) for a one-character class
testClass(class, text) == \E j \in 1..Len(text) : text[j] \in class

\* text.match(regex).length for a global one-character class
matchCount(class, text) == Cardinality({j \in 1..Len(text) : text[j] \in class})

toLowerCase(tag) ==
    [j \in 1..Len(tag) |->
        CASE tag[j] = "Z" -> "z"
          [] tag[j] = "H" -> "h"
          [] tag[j] = "C" -> "c"
          [] tag[j] = "N" -> "n"
          [] tag[j] = "F" -> "f"
          [] tag[j] = "R" -> "r"
          [] tag[j] = "A" -> "a"
          [] OTHER        -> tag[j]]

\* tag.split("-")[0]
firstSubtag(tag) ==
    LET dashes == {j \in 1..Len(tag) : tag[j] = "-"}
    IN  IF dashes = {} THEN tag ELSE SubSeq(tag, 1, Min(dashes) - 1)

\* line 38 without the lower-casing
normalizeTargetLanguageCaseKept(targetLanguage) == firstSubtag(targetLanguage)

\* line 38: (targetLanguage || "").toLowerCase().split("-")[0]
normalizeTargetLanguage(targetLanguage) == firstSubtag(toLowerCase(targetLanguage))

\* the detection call resolved with some code, whichever it is
detectedAny(d, code) == d.kind = "code"

\* what detectSourceLanguageAsync resolved with equals the given code
detectedIs(d, code) == d.kind = "code" /\ d.code = code

\* line 53 with the threshold itself counted as Chinese
exceedsChineseRatioInclusive(text) ==
    /\ Len(text) > 0
    /\ matchCount(REGEX_HAN, text) * CHINESE_RATIO_THRESHOLD.den
           >= CHINESE_RATIO_THRESHOLD.num * Len(text)

\* line 53: totalLength > 0 && chineseCount / totalLength > CHINESE_RATIO_THRESHOLD
exceedsChineseRatio(text) ==
    /\ Len(text) > 0
    /\ matchCount(REGEX_HAN, text) * CHINESE_RATIO_THRESHOLD.den
           > CHINESE_RATIO_THRESHOLD.num * Len(text)

\* the awaits reached when the Kana test of line 44 does not return
awaitsDetectionDespiteKana(text, targetLanguage, contextText) ==
    LET tgtLang == normalizeTargetLanguage(targetLanguage)
    IN  CASE tgtLang = <<"z", "h">> ->
                /\ ~exceedsChineseRatio(text)
                /\ Len(trim(contextText)) > 0
          [] tgtLang \in {<<"j", "a">>, <<"k", "o">>, <<"r", "u">>, <<"e", "n">>} -> FALSE
          [] OTHER -> Len(contextText) > 0

\* the call reaches one of its two awaits of detectSourceLanguageAsync
\* (lines 63-64 and 106-107)
awaitsDetection(text, targetLanguage, contextText) ==
    LET tgtLang == normalizeTargetLanguage(targetLanguage)
    IN  CASE tgtLang = <<"z", "h">> ->
                /\ ~testClass(REGEX_KANA, text)
                /\ ~exceedsChineseRatio(text)
                /\ Len(trim(contextText)) > 0
          [] tgtLang \in {<<"j", "a">>, <<"k", "o">>, <<"r", "u">>, <<"e", "n">>} -> FALSE
          [] OTHER -> Len(contextText) > 0

\* the value shouldTriggerTranslationAsync resolves with; d is what the
\* detection call resolved with, read only where awaitsDetection holds
shouldTriggerTranslation(text, targetLanguage, contextText, d) ==
    LET tgtLang == normalizeTargetLanguage(targetLanguage)
    IN  CASE tgtLang = <<"z", "h">> ->
                IF testClass(REGEX_KANA, text) THEN TRUE
                ELSE IF exceedsChineseRatio(text) THEN FALSE
                ELSE IF Len(trim(contextText)) > 0 /\ detectedIs(d, <<"z", "h">>) THEN FALSE
                ELSE TRUE
          [] tgtLang = <<"j", "a">> -> ~testClass(REGEX_KANA, text)
          [] tgtLang = <<"k", "o">> -> ~testClass(REGEX_HANGUL, text)
          [] tgtLang = <<"r", "u">> -> ~testClass(REGEX_CYRILLIC, text)
          [] tgtLang = <<"e", "n">> -> TRUE
          [] OTHER ->
                IF Len(contextText) > 0 /\ detectedIs(d, tgtLang) THEN FALSE
                ELSE TRUE

\* selectionValidator.isNativeLanguageAsync
isNativeLanguage(text, targetLanguage, contextText, d) ==
    ~shouldTriggerTranslation(text, targetLanguage, contextText, d)

(***************************************************************************)
(* selectionValidator.validateSelectionAsync.                              *)
(* A call c carries the arguments (trigger, settings, selection) and what *)
(* the environment answers for the selection's range: its text and the    *)
(* surrounding text.  The state d of the range's container element is     *)
(* read from the live document when the code reaches the element checks.  *)
(***************************************************************************)
\* constants.MAX_SELECTION_LENGTH: the general selection cap, above the cap
\* for a single-click word
MAX_SELECTION_LENGTH == 40
MAX_SINGLE_CLICK_WORD_LENGTH == 30

Verdict(isValid, text, range, reason, shouldCleanup) ==
    [isValid |-> isValid, text |-> text, range |-> range, reason |-> reason,
     shouldCleanup |-> shouldCleanup]

\* domSanitizer.getCleanTextFromRange(range): a collapsed range has no text
getCleanTextFromRange(c) == IF c.collapsed THEN <<>> ELSE c.rawText

\* domSanitizer.getSurroundingTextForDetection(range, 100)
getSurroundingTextForDetection(c) == c.contextText

\* /^[\d\s\p{P}\p{S}]+$/u.test(text)
isContentless(text) ==
    /\ Len(text) > 0
    /\ \A j \in 1..Len(text) :
          text[j] \in DIGITS \cup WHITESPACE \cup PUNCTUATION \cup SYMBOLS

\* lines 83-85
selectedText(c) == trim(getCleanTextFromRange(c))

\* 1. Basic Selection Check
basicSelectionCheck(c) ==
    IF c.selection \in {"null", "noRange"}
    THEN Verdict(FALSE, <<>>, FALSE, "No valid selection", TRUE)
    ELSE NoVerdict

\* 2. Global Settings Check
globalSettingsCheck(c) ==
    IF ~c.settings.enableTapWord
    THEN Verdict(FALSE, <<>>, FALSE, "Extension disabled via enableTapWord", TRUE)
    ELSE NoVerdict

\* 3. Trigger-specific Settings Check
triggerSettingsCheck(c) ==
    IF c.trigger = "icon"
    THEN IF ~c.settings.showIcon
         THEN Verdict(FALSE, <<>>, FALSE, "Icon disabled via settings", FALSE)
         ELSE NoVerdict
    ELSE IF c.trigger = "doubleClickWord"
    THEN IF ~c.settings.doubleClickTranslateV2
         THEN Verdict(FALSE, <<>>, FALSE,
                      "Double-click word translation disabled via settings", FALSE)
         ELSE NoVerdict
    ELSE IF c.trigger = "doubleClickSentence"
    THEN IF ~c.settings.doubleClickSentenceTranslate
         THEN Verdict(FALSE, <<>>, FALSE,
                      "Double-click sentence translation disabled via settings", FALSE)
         ELSE NoVerdict
    ELSE NoVerdict

\* step 4 leaving the icon in place for an empty selection
textValidationNoCleanup(c) ==
    IF Len(selectedText(c)) = 0
    THEN Verdict(FALSE, <<>>, FALSE, "Empty selection", FALSE)
    ELSE NoVerdict

\* 4. Text Extraction & Validation
textValidation(c) ==
    IF Len(selectedText(c)) = 0
    THEN Verdict(FALSE, <<>>, FALSE, "Empty selection", TRUE)
    ELSE NoVerdict

\* 5. Length Check
lengthCheck(c) ==
    IF Len(selectedText(c)) > MAX_SELECTION_LENGTH
    THEN Verdict(FALSE, selectedText(c), FALSE, "Selection too long", TRUE)
    ELSE NoVerdict

\* step 6 skipping numbers only
contentlessCheckDigitsOnly(c) ==
    IF Len(selectedText(c)) > 0
       /\ \A j \in 1..Len(selectedText(c)) : selectedText(c)[j] \in DIGITS
    THEN Verdict(FALSE, selectedText(c), FALSE, "Contentless selection skipped", FALSE)
    ELSE NoVerdict

\* 6. Contentless Check
contentlessCheck(c) ==
    IF isContentless(selectedText(c))
    THEN Verdict(FALSE, selectedText(c), FALSE, "Contentless selection skipped", FALSE)
    ELSE NoVerdict

\* steps 1-6 with the trigger's toggle checked ahead of the global toggle
syncChecksTriggerFirst(c) ==
    << [gate |-> "noSelection",   verdict |-> basicSelectionCheck(c)],
       [gate |-> "triggerToggle", verdict |-> triggerSettingsCheck(c)],
       [gate |-> "globalToggle",  verdict |-> globalSettingsCheck(c)],
       [gate |-> "emptyText",     verdict |-> textValidation(c)],
       [gate |-> "tooLong",       verdict |-> lengthCheck(c)],
       [gate |-> "contentless",   verdict |-> contentlessCheck(c)] >>

\* lines 52-105: the checks before the await, in the order of the code
syncChecks(c) ==
    << [gate |-> "noSelection",   verdict |-> basicSelectionCheck(c)],
       [gate |-> "globalToggle",  verdict |-> globalSettingsCheck(c)],
       [gate |-> "triggerToggle", verdict |-> triggerSettingsCheck(c)],
       [gate |-> "emptyText",     verdict |-> textValidation(c)],
       [gate |-> "tooLong",       verdict |-> lengthCheck(c)],
       [gate |-> "contentless",   verdict |-> contentlessCheck(c)] >>

\* the first check of a list that returns, 0 when none does
firstReturning(checks) ==
    LET hits == {j \in 1..Len(checks) : checks[j].verdict # NoVerdict}
    IN  IF hits = {} THEN 0 ELSE Min(hits)

\* the gates evaluated when the k-th check is the last one evaluated
gatesUpTo(checks, k) == [j \in 1..k |-> checks[j].gate]

\* step 7 following suppressNativeLanguage for every trigger
consultsClassifierOnSetting(c) == c.settings.suppressNativeLanguage

\* lines 118 and 123: the call awaits the classifier
consultsClassifier(c) ==
    \/ c.trigger \in {"doubleClickWord", "doubleClickSentence"}
    \/ c.settings.suppressNativeLanguage

\* lines 118-129: what step 7 returns once the classifier has resolved
suppressionCheck(c, d) ==
    LET text == selectedText(c)
        targetLang == c.settings.targetLanguage
        contextText == getSurroundingTextForDetection(c)
    IN  IF c.trigger \in {"doubleClickWord", "doubleClickSentence"}
        THEN IF isNativeLanguage(text, targetLang, contextText, d)
             THEN Verdict(FALSE, text, FALSE,
                          "Double-click suppressed on native language", TRUE)
             ELSE NoVerdict
        ELSE IF ~shouldTriggerTranslation(text, targetLang, contextText, d)
             THEN Verdict(FALSE, text, FALSE, "Suppressed by language detector", TRUE)
             ELSE NoVerdict

\* editableElementDetector.isEditableElement(element), for the container
\* element of the selection's range
isEditableElement(d) == d.editable

\* line 139: element.closest(ICON, TOOLTIP, ANCHOR)
closestExtensionUi(d) == d.ui \in {"icon", "tooltip", "anchor"}

\* step 8 leaving the icon in place for a selection in editable content
domChecksKeepEditable(c, d) ==
    << [gate |-> "editable",
        verdict |-> IF isEditableElement(d)
                    THEN Verdict(FALSE, selectedText(c), FALSE,
                                 "Selection inside editable element", FALSE)
                    ELSE NoVerdict],
       [gate |-> "extensionUi",
        verdict |-> IF closestExtensionUi(d)
                    THEN Verdict(FALSE, selectedText(c), FALSE,
                                 "Selection inside extension UI", FALSE)
                    ELSE NoVerdict] >>

\* 8. DOM/Element Checks, lines 131-141, on the element state d
domChecks(c, d) ==
    << [gate |-> "editable",
        verdict |-> IF isEditableElement(d)
                    THEN Verdict(FALSE, selectedText(c), FALSE,
                                 "Selection inside editable element", TRUE)
                    ELSE NoVerdict],
       [gate |-> "extensionUi",
        verdict |-> IF closestExtensionUi(d)
                    THEN Verdict(FALSE, selectedText(c), FALSE,
                                 "Selection inside extension UI", FALSE)
                    ELSE NoVerdict] >>

\* line 143
validSelection(c) == Verdict(TRUE, selectedText(c), TRUE, "Valid selection", FALSE)

\* lines 131-143: the verdict and the gates evaluated from step 8 on
elementStage(c, d) ==
    LET checks == domChecks(c, d)
        k == firstReturning(checks)
    IN  IF k > 0
        THEN [verdict |-> checks[k].verdict, gates |-> gatesUpTo(checks, k)]
        ELSE [verdict |-> validSelection(c), gates |-> gatesUpTo(checks, Len(checks))]

\* lines 119-143: the continuation after the await; s is what the
\* classifier's detection call resolved with, d the live element state
selectionContinuation(c, s, d) ==
    LET sup == suppressionCheck(c, s)
    IN  IF sup # NoVerdict
        THEN [verdict |-> sup, gates |-> <<>>]
        ELSE elementStage(c, d)

\* validateSelectionAsync up to its return or its await
ValidateSelection ==
    /\ vpc = "call"
    /\ call.fn = "validateSelectionAsync"
    /\ LET checks == syncChecks(call)
           k == firstReturning(checks)
           passed == gatesUpTo(checks, Len(checks))
       IN  IF k > 0
           THEN /\ vresult' = checks[k].verdict
                /\ gates' = gatesUpTo(checks, k)
                /\ vpc' = "done"
                /\ UNCHANGED detectCalls
           ELSE IF consultsClassifier(call)
           THEN /\ gates' = passed \o <<"suppression">>
                /\ IF awaitsDetection(selectedText(call), call.settings.targetLanguage,
                                      getSurroundingTextForDetection(call))
                   THEN vpc' = "detecting" /\ detectCalls' = detectCalls + 1
                   ELSE vpc' = "classified" /\ UNCHANGED detectCalls
                /\ UNCHANGED vresult
           ELSE /\ vresult' = elementStage(call, dom).verdict
                /\ gates' = passed \o elementStage(call, dom).gates
                /\ vpc' = "done"
                /\ UNCHANGED detectCalls
    /\ UNCHANGED <<call, dom, dom0, detected, evars, xvars, yvars>>

(***************************************************************************)
(* editableElementDetector.isInteractiveElement(target, event).            *)
(* The event target t carries its composed path (the target element       *)
(* first, its ancestors after it), the computed cursor of the target       *)
(* element, whether the element is editable and which part of the          *)
(* extension's UI it lies in.                                              *)
(***************************************************************************)
TEXT_CURSOR_ALLOWLIST == {"text", "auto", "default"}
CURSOR_POINTER == "pointer"
STRONG_INTERACTIVE_TAGS == {"a", "button", "select", "label", "summary"}
STRONG_INTERACTIVE_ROLES == {"button", "link", "tab"}

Element(tag, role, onclick, tabindex) ==
    [tag |-> tag, role |-> role, onclick |-> onclick, tabindex |-> tabindex]

isTextContentException(t) == t.cursor \in TEXT_CURSOR_ALLOWLIST

\* the strong test without the tag selector
getStrongInteractiveResultNoTags(t, node, checkCursor) ==
    \/ node.role \in STRONG_INTERACTIVE_ROLES
    \/ checkCursor /\ t.cursor = CURSOR_POINTER

getStrongInteractiveResult(t, node, checkCursor) ==
    \/ node.tag \in STRONG_INTERACTIVE_TAGS
    \/ node.role \in STRONG_INTERACTIVE_ROLES
    \/ checkCursor /\ t.cursor = CURSOR_POINTER

\* tabindex -1 stands for a missing or negative attribute
getWeakInteractiveResult(node) == node.onclick \/ node.tabindex >= 0

\* isInteractiveElementSelf: "strong", "weak" or "none"
isInteractiveElementSelf(t, node, checkCursor) ==
    IF getStrongInteractiveResult(t, node, checkCursor) THEN "strong"
    ELSE IF getWeakInteractiveResult(node) THEN "weak"
    ELSE "none"

\* lines 314-354, for an event that has a composed path
isInteractiveElement(t) ==
    IF t.editable THEN TRUE
    ELSE LET level(j) == isInteractiveElementSelf(t, t.path[j], j = 1)
             hits == {j \in 1..Len(t.path) : level(j) # "none"}
         IN  IF hits = {} THEN FALSE
             ELSE IF level(Min(hits)) = "weak" /\ isTextContentException(t) THEN FALSE
             ELSE TRUE

(***************************************************************************)
(* selectionValidator.validateSingleClickAsync(event, settings).           *)
(***************************************************************************)
Skip(text, reason) == Verdict(FALSE, text, FALSE, reason, FALSE)

\* line 219
sanitizedText(c) == trim(c.rawText)

\* the modifier test without the shift key
modifierKeyPressedNoShift(e) == e.modifiers \cap {"ctrl", "alt", "meta"} # {}

\* line 184: event.ctrlKey || event.altKey || event.metaKey || event.shiftKey
modifierKeyPressed(e) == e.modifiers \cap {"ctrl", "alt", "meta", "shift"} # {}

\* lines 165-231: the checks before the await, in the order of the code
singleClickChecks(c) ==
    << [gate |-> "globalToggle",
        verdict |-> IF ~c.settings.enableTapWord
                    THEN Skip(<<>>, "Extension disabled via enableTapWord")
                    ELSE NoVerdict],
       [gate |-> "featureToggle",
        verdict |-> IF ~c.settings.singleClickTranslate
                    THEN Skip(<<>>, "Feature disabled") ELSE NoVerdict],
       [gate |-> "event",
        verdict |-> IF c.event.button # 0 \/ c.event.defaultPrevented
                    THEN Skip(<<>>, "Invalid event") ELSE NoVerdict],
       [gate |-> "modifier",
        verdict |-> IF modifierKeyPressed(c.event)
                    THEN Skip(<<>>, "Modifier key pressed") ELSE NoVerdict],
       [gate |-> "interactive",
        verdict |-> IF isInteractiveElement(c.event.target)
                    THEN Skip(<<>>, "Interactive element") ELSE NoVerdict],
       [gate |-> "extensionUi",
        verdict |-> IF c.event.target.ui \in
                           {"icon", "anchor", "tooltip", "modal", "modalBackdrop"}
                    THEN Skip(<<>>, "Extension UI element") ELSE NoVerdict],
       [gate |-> "activeSelection",
        verdict |-> IF c.selection = "range" /\ ~c.collapsed
                    THEN Skip(<<>>, "Active selection present") ELSE NoVerdict],
       [gate |-> "wordRange",
        verdict |-> IF ~c.wordRange
                    THEN Skip(<<>>, "No word range at point") ELSE NoVerdict],
       [gate |-> "invalidText",
        verdict |-> IF Len(sanitizedText(c)) = 0 \/ testClass(WHITESPACE, sanitizedText(c))
                    THEN Skip(sanitizedText(c), "Invalid text (empty or whitespace)")
                    ELSE NoVerdict],
       [gate |-> "wordTooLong",
        verdict |-> IF Len(sanitizedText(c)) > MAX_SINGLE_CLICK_WORD_LENGTH
                    THEN Skip(sanitizedText(c), "Word too long") ELSE NoVerdict],
       [gate |-> "contentless",
        verdict |-> IF isContentless(sanitizedText(c))
                    THEN Skip(sanitizedText(c), "Contentless selection skipped")
                    ELSE NoVerdict] >>

\* lines 240-245: the continuation after the await
singleClickContinuation(c, s) ==
    IF isNativeLanguage(sanitizedText(c), c.settings.targetLanguage, c.contextText, s)
    THEN Verdict(FALSE, sanitizedText(c), FALSE,
                 "Single-click suppressed on native language", TRUE)
    ELSE Verdict(TRUE, sanitizedText(c), TRUE, "Valid single click", TRUE)

\* validateSingleClickAsync up to its return or its await
ValidateSingleClick ==
    /\ vpc = "call"
    /\ call.fn = "validateSingleClickAsync"
    /\ LET checks == singleClickChecks(call)
           k == firstReturning(checks)
       IN  IF k > 0
           THEN /\ vresult' = checks[k].verdict
                /\ gates' = gatesUpTo(checks, k)
                /\ vpc' = "done"
                /\ UNCHANGED detectCalls
           ELSE /\ gates' = gatesUpTo(checks, Len(checks)) \o <<"suppression">>
                /\ IF awaitsDetection(sanitizedText(call), call.settings.targetLanguage,
                                      call.contextText)
                   THEN vpc' = "detecting" /\ detectCalls' = detectCalls + 1
                   ELSE vpc' = "classified" /\ UNCHANGED detectCalls
                /\ UNCHANGED vresult
    /\ UNCHANGED <<call, dom, dom0, detected, evars, xvars, yvars>>

(***************************************************************************)
(* The await: the classifier resolves, with or without a detection call,   *)
(* the detection call rejects, the page changes while detection is         *)
(* pending.                                                                *)
(***************************************************************************)
\* the caller's continuation runs with the classifier's answer
resume(s) ==
    /\ IF call.fn = "validateSelectionAsync"
       THEN /\ vresult' = selectionContinuation(call, s, dom).verdict
            /\ gates' = gates \o selectionContinuation(call, s, dom).gates
       ELSE /\ vresult' = singleClickContinuation(call, s)
            /\ gates' = gates
    /\ vpc' = "done"

\* shouldTriggerTranslationAsync returned without calling the detector
ClassifierResolves ==
    /\ vpc = "classified"
    /\ resume(NoDetection)
    /\ UNCHANGED <<call, dom, dom0, detectCalls, detected, evars, xvars, yvars>>

\* codes the detector answers with, and null
DetectionResults ==
    {[kind |-> "code", code |-> l] : l \in {<<"z", "h">>, <<"f", "r">>, <<"e", "n">>}}
    \cup {[kind |-> "null", code |-> <<>>]}

\* detectSourceLanguageAsync resolves
DetectionResolves ==
    /\ vpc = "detecting"
    /\ \E s \in DetectionResults :
          /\ detected' = s
          /\ resume(s)
    /\ UNCHANGED <<call, dom, dom0, detectCalls, evars, xvars, yvars>>

\* detectSourceLanguageAsync throws or rejects: nothing between the detector
\* and the validator's caller catches, the validator's promise rejects
DetectionRejects ==
    /\ vpc = "detecting"
    /\ detected' = [kind |-> "error", code |-> <<>>]
    /\ vpc' = "rejected"
    /\ UNCHANGED <<call, dom, dom0, vresult, gates, detectCalls, evars, xvars, yvars>>

DomStates == [editable : BOOLEAN, ui : {"none", "icon", "tooltip", "anchor", "modal"}]

\* a page script changes the selection's container while detection is pending
MutateDocument ==
    /\ vpc = "detecting"
    /\ call.fn = "validateSelectionAsync"
    /\ \E d \in DomStates \ {dom} : dom' = d
    /\ UNCHANGED <<call, dom0, vpc, vresult, gates, detectCalls, detected, evars, xvars, yvars>>

(***************************************************************************)
(* The explored validator calls.                                           *)
(***************************************************************************)
TargetLanguages == {<<"z", "h", "-", "C", "N">>, <<"j", "a">>, <<"f", "r">>}

\* the settings validateSelectionAsync reads
SelectionSettings ==
    [enableTapWord : BOOLEAN, showIcon : BOOLEAN, doubleClickTranslateV2 : BOOLEAN,
     doubleClickSentenceTranslate : BOOLEAN, singleClickTranslate : {FALSE},
     suppressNativeLanguage : BOOLEAN, targetLanguage : TargetLanguages]

\* the settings validateSingleClickAsync reads, and suppressNativeLanguage
SingleClickSettings ==
    [enableTapWord : BOOLEAN, showIcon : {TRUE}, doubleClickTranslateV2 : {TRUE},
     doubleClickSentenceTranslate : {TRUE}, singleClickTranslate : BOOLEAN,
     suppressNativeLanguage : BOOLEAN, targetLanguage : TargetLanguages]

Triggers == {"icon", "doubleClickWord", "doubleClickSentence"}

LongText(n) == [j \in 1..n |-> "a"]

\* texts of a non-collapsed range: blank, padded Latin, digits and
\* punctuation, a symbol and a digit, Han, Kana, at and over the length limit
SelectionTexts ==
    {<<" ">>, <<" ", "a", " ">>, <<"1", ".">>, <<" ", "$", " ", "1">>, <<"H", "a">>,
     <<"K", "H">>,
     LongText(MAX_SELECTION_LENGTH), LongText(MAX_SELECTION_LENGTH + 1)}

\* texts of the word range under a click: none left after sanitizing, a
\* Latin word, digits and a hyphen, at and over the word length limit
WordTexts ==
    {<<>>, <<"a", "'", "a">>, <<"1", "-">>,
     LongText(MAX_SINGLE_CLICK_WORD_LENGTH), LongText(MAX_SINGLE_CLICK_WORD_LENGTH + 1)}

ContextTexts == {<<>>, <<"a", " ", "a">>}

PlainTarget ==
    [path |-> <<Element("span", "none", FALSE, -1)>>, cursor |-> "auto",
     editable |-> FALSE, ui |-> "none"]

\* a span, a link, a link with a text cursor inside the tooltip, an input
\* field, text with an onclick handler, a span inside the icon, a span
\* inside the modal
Targets ==
    {PlainTarget,
     [PlainTarget EXCEPT !.path = <<Element("a", "none", FALSE, -1)>>,
                         !.cursor = "pointer"],
     [PlainTarget EXCEPT !.path = <<Element("a", "none", FALSE, -1)>>,
                         !.cursor = "text", !.ui = "tooltip"],
     [PlainTarget EXCEPT !.editable = TRUE, !.cursor = "text"],
     [PlainTarget EXCEPT !.path = <<Element("span", "none", FALSE, -1),
                                    Element("div", "none", TRUE, -1)>>,
                         !.cursor = "text"],
     [PlainTarget EXCEPT !.ui = "icon"],
     [PlainTarget EXCEPT !.ui = "modal"]}

Modifiers == {{}, {"ctrl"}, {"alt"}, {"meta"}, {"shift"}}

NoEvent == [button |-> 0, defaultPrevented |-> FALSE, modifiers |-> {}, target |-> PlainTarget]

Events ==
    [button : {0, 2}, defaultPrevented : BOOLEAN, modifiers : Modifiers, target : Targets]

\* validateSelectionAsync(selection, settings, trigger) without a range
NoRangeCalls ==
    [fn : {"validateSelectionAsync"}, trigger : Triggers, settings : SelectionSettings,
     selection : {"null", "noRange"}, collapsed : {TRUE}, rawText : {<<>>},
     contextText : {<<>>}, event : {NoEvent}, wordRange : {FALSE}]

\* ... with a collapsed range
CollapsedCalls ==
    [fn : {"validateSelectionAsync"}, trigger : Triggers, settings : SelectionSettings,
     selection : {"range"}, collapsed : {TRUE}, rawText : {<<>>},
     contextText : ContextTexts, event : {NoEvent}, wordRange : {FALSE}]

\* ... with a range over text
RangeCalls ==
    [fn : {"validateSelectionAsync"}, trigger : Triggers, settings : SelectionSettings,
     selection : {"range"}, collapsed : {FALSE}, rawText : SelectionTexts,
     contextText : ContextTexts, event : {NoEvent}, wordRange : {FALSE}]

\* validateSingleClickAsync(event, settings) where no word lies under the
\* point; window.getSelection() is collapsed or not
NoWordCalls ==
    [fn : {"validateSingleClickAsync"}, trigger : {"singleClick"},
     settings : SingleClickSettings, selection : {"range"}, collapsed : BOOLEAN,
     rawText : {<<>>}, contextText : {<<>>}, event : Events, wordRange : {FALSE}]

\* ... where getWordRangeFromPoint returns a range
WordCalls ==
    [fn : {"validateSingleClickAsync"}, trigger : {"singleClick"},
     settings : SingleClickSettings, selection : {"range"}, collapsed : BOOLEAN,
     rawText : WordTexts, contextText : ContextTexts, event : Events, wordRange : {TRUE}]

ExpandOff ==
    /\ doc = <<>>
    /\ input = [s |-> TextPoint(0, 0), e |-> TextPoint(0, 0)]
    /\ pc = "off"
    /\ pass = 1
    /\ root = [lo |-> 0, hi |-> 0]
    /\ startPos = NoPos
    /\ endPos = NoPos
    /\ hardStart = NoPos
    /\ hardEnd = NoPos
    /\ safeStart = NoPos
    /\ safeEnd = NoPos
    /\ firstResult = [s |-> TextPoint(0, 0), e |-> TextPoint(0, 0)]

InitValidate ==
    /\ call \in NoRangeCalls \cup CollapsedCalls \cup RangeCalls \cup NoWordCalls \cup WordCalls
    /\ dom \in DomStates
    /\ call.fn = "validateSingleClickAsync" => dom = PlainDom
    /\ call.selection # "range" => dom = PlainDom
    /\ dom0 = dom
    /\ vpc = "call"
    /\ vresult = NoVerdict
    /\ gates = <<>>
    /\ detectCalls = 0
    /\ detected = NoDetection
    /\ ExpandOff
    /\ DirectIdle
    /\ RestIdle

NextValidate ==
    \/ ValidateSelection
    \/ ValidateSingleClick
    \/ ClassifierResolves
    \/ DetectionResolves
    \/ DetectionRejects
    \/ MutateDocument

SpecValidate == InitValidate /\ [][NextValidate]_vars

(***************************************************************************)
(* Claims about the validators.                                            *)
(***************************************************************************)
SelectionDone == vpc = "done" /\ call.fn = "validateSelectionAsync"

\* the gate order the contract states
ContractGateOrder ==
    <<"noSelection", "globalToggle", "triggerToggle", "emptyText", "tooLong",
      "contentless", "suppression", "editable", "extensionUi">>

GateIndex(g) == CHOOSE j \in 1..Len(ContractGateOrder) : ContractGateOrder[j] = g

TriggerToggleOff ==
    \/ call.trigger = "icon" /\ ~call.settings.showIcon
    \/ call.trigger = "doubleClickWord" /\ ~call.settings.doubleClickTranslateV2
    \/ call.trigger = "doubleClickSentence" /\ ~call.settings.doubleClickSentenceTranslate

\* the gate, taken alone, rejects the call's input
WouldReject(g) ==
    CASE g = "noSelection"   -> call.selection # "range"
      [] g = "globalToggle"  -> ~call.settings.enableTapWord
      [] g = "triggerToggle" -> TriggerToggleOff
      [] g = "emptyText"     -> Len(selectedText(call)) = 0
      [] g = "tooLong"       -> Len(selectedText(call)) > MAX_SELECTION_LENGTH
      [] g = "contentless"   -> isContentless(selectedText(call))
      [] g = "suppression"   ->
            /\ consultsClassifier(call)
            /\ ~shouldTriggerTranslation(selectedText(call), call.settings.targetLanguage,
                                         call.contextText, detected)
      [] g = "editable"      -> isEditableElement(dom)
      [] g = "extensionUi"   -> closestExtensionUi(dom)

Rejecting == {j \in 1..Len(ContractGateOrder) : WouldReject(ContractGateOrder[j])}

GateOfReason(reason) ==
    CASE reason = "No valid selection" -> "noSelection"
      [] reason = "Extension disabled via enableTapWord" -> "globalToggle"
      [] reason \in {"Icon disabled via settings",
                     "Double-click word translation disabled via settings",
                     "Double-click sentence translation disabled via settings"}
            -> "triggerToggle"
      [] reason = "Empty selection" -> "emptyText"
      [] reason = "Selection too long" -> "tooLong"
      [] reason = "Contentless selection skipped" -> "contentless"
      [] reason \in {"Double-click suppressed on native language",
                     "Suppressed by language detector"} -> "suppression"
      [] reason = "Selection inside editable element" -> "editable"
      [] reason = "Selection inside extension UI" -> "extensionUi"
      [] OTHER -> "none"

\* C4: a finished validateSelectionAsync call has evaluated its gates in the
\* order no selection, global toggle, trigger toggle, empty text, too long,
\* contentless, suppression, editable, extension UI; its reason is that of
\* the earliest gate that rejects the input, no gate after that one was
\* evaluated, and the detector was not called when an earlier gate rejected.
C4_GateOrder ==
    SelectionDone =>
        LET rejecting == Rejecting
            first == IF rejecting = {} THEN 0 ELSE Min(rejecting)
            evaluated == [k \in 1..Len(gates) |-> GateIndex(gates[k])]
        IN  /\ \A k \in 1..(Len(gates) - 1) : evaluated[k] < evaluated[k + 1]
            /\ first = 0 => vresult.isValid
            /\ first # 0 =>
                  /\ ~vresult.isValid
                  /\ GateOfReason(vresult.reason) = ContractGateOrder[first]
                  /\ \A k \in 1..Len(gates) : evaluated[k] <= first
                  /\ first < GateIndex("suppression") => detectCalls = 0

\* C4 witness: the extension is disabled for a selection that lies in
\* editable content and whose classification needs the detector; the call
\* has returned at the global toggle.
C4_Witness ==
    /\ SelectionDone
    /\ Rejecting \cap {GateIndex("globalToggle"), GateIndex("editable")}
          = {GateIndex("globalToggle"), GateIndex("editable")}
    /\ Min(Rejecting) = GateIndex("globalToggle")
    /\ consultsClassifier(call)
    /\ awaitsDetection(selectedText(call), call.settings.targetLanguage, call.contextText)
    /\ vresult.reason = "Extension disabled via enableTapWord"

\* C5 as stated: with no selection, no range or a collapsed range the call
\* returns isValid = false and shouldCleanup = true, whatever the trigger
\* and the settings.
C5_EmptyAlwaysCleansUp ==
    (SelectionDone /\ (call.selection \in {"null", "noRange"} \/ call.collapsed)) =>
        ~vresult.isValid /\ vresult.shouldCleanup

\* C5 amended: with no selection or no range the call returns isValid =
\* false and shouldCleanup = true; with a range whose extracted text is empty
\* (a collapsed range) it returns isValid = false, and shouldCleanup = true
\* except when the extension is enabled and the trigger's own toggle is off,
\* where shouldCleanup = false.
C5_EmptyCleansUpUnlessTriggerOff ==
    SelectionDone =>
        /\ call.selection \in {"null", "noRange"} =>
              ~vresult.isValid /\ vresult.shouldCleanup
        /\ (call.selection = "range" /\ Len(selectedText(call)) = 0) =>
              /\ ~vresult.isValid
              /\ vresult.shouldCleanup <=> ~(call.settings.enableTapWord /\ TriggerToggleOff)

\* C5 witness: a collapsed range, the extension enabled, the trigger's toggle
\* off: the call has returned without asking for cleanup.
C5_Witness ==
    /\ SelectionDone
    /\ call.selection = "range"
    /\ call.collapsed
    /\ call.settings.enableTapWord
    /\ TriggerToggleOff
    /\ ~vresult.isValid
    /\ ~vresult.shouldCleanup

\* the gate that rejects the call's input first, "none" when no gate does
RejectingGate == IF Rejecting = {} THEN "none" ELSE ContractGateOrder[Min(Rejecting)]

\* C6: in every verdict of validateSelectionAsync shouldCleanup is false
\* exactly when the verdict is valid or the rejecting gate is the trigger
\* toggle, contentless or extension UI, and true for the six other gates; a
\* valid verdict carries the range and the trimmed extracted text.
C6_CleanupTable ==
    SelectionDone =>
        LET gate == RejectingGate
        IN  /\ vresult.isValid <=> gate = "none"
            /\ ~vresult.shouldCleanup <=>
                  (vresult.isValid \/ gate \in {"triggerToggle", "contentless", "extensionUi"})
            /\ vresult.shouldCleanup <=>
                  gate \in {"noSelection", "globalToggle", "emptyText", "tooLong",
                            "suppression", "editable"}
            /\ vresult.isValid =>
                  /\ vresult.range
                  /\ vresult.text = trim(call.rawText)

\* C6 witness: a selection padded with whitespace was found valid after the
\* classifier was consulted.
C6_Witness ==
    /\ SelectionDone
    /\ vresult.isValid
    /\ vresult.text # call.rawText
    /\ ~vresult.shouldCleanup
    /\ detectCalls = 1

ClickPath ==
    \/ call.fn = "validateSingleClickAsync"
    \/ call.fn = "validateSelectionAsync"
         /\ call.trigger \in {"doubleClickWord", "doubleClickSentence"}

IconPath == call.fn = "validateSelectionAsync" /\ call.trigger = "icon"

\* no check ahead of the suppression step returns
ReachesSuppression ==
    IF call.fn = "validateSelectionAsync"
    THEN firstReturning(syncChecks(call)) = 0
    ELSE firstReturning(singleClickChecks(call)) = 0

\* the text the call extracted
ExtractedText ==
    IF call.fn = "validateSelectionAsync" THEN selectedText(call) ELSE sanitizedText(call)

\* the classifier's answer for the call's text, target language and context
ClassifiedNative ==
    isNativeLanguage(ExtractedText, call.settings.targetLanguage, call.contextText, detected)

SuppressedReasons ==
    {"Double-click suppressed on native language", "Suppressed by language detector",
     "Single-click suppressed on native language"}

\* C7: on the double-click word, double-click sentence and single-click
\* paths text classified as native is rejected for suppression whatever
\* suppressNativeLanguage is; on the icon path with suppressNativeLanguage
\* off the classifier is not consulted and nothing is rejected for
\* suppression, with it on the classifier is consulted.
C7_ClickPathsForceSuppression ==
    vpc = "done" =>
        /\ (ClickPath /\ ReachesSuppression) =>
              /\ "suppression" \in {gates[k] : k \in 1..Len(gates)}
              /\ ClassifiedNative =>
                    ~vresult.isValid /\ vresult.reason \in SuppressedReasons
        /\ (IconPath /\ ~call.settings.suppressNativeLanguage) =>
              /\ "suppression" \notin {gates[k] : k \in 1..Len(gates)}
              /\ detectCalls = 0
              /\ vresult.reason \notin SuppressedReasons
        /\ (IconPath /\ call.settings.suppressNativeLanguage /\ ReachesSuppression) =>
              /\ "suppression" \in {gates[k] : k \in 1..Len(gates)}
              /\ ClassifiedNative =>
                    ~vresult.isValid /\ vresult.reason \in SuppressedReasons

\* C7 witness: a double-click on native text was rejected for suppression
\* although suppressNativeLanguage is off.
C7_Witness ==
    /\ SelectionDone
    /\ call.trigger = "doubleClickWord"
    /\ ~call.settings.suppressNativeLanguage
    /\ ClassifiedNative
    /\ vresult.reason = "Double-click suppressed on native language"

\* C8: a selection inside the icon, the tooltip, the anchor or the modal
\* that passes all earlier gates is rejected with shouldCleanup = false.
C8_InsideUiNeverValid ==
    (/\ SelectionDone
     /\ dom.ui \in {"icon", "tooltip", "anchor", "modal"}
     /\ \A j \in Rejecting : j >= GateIndex("extensionUi")) =>
        ~vresult.isValid /\ ~vresult.shouldCleanup

\* the verdict of validateSelectionAsync when every read sees the element
\* state d and the detector resolves with s
verdictOn(c, s, d) ==
    LET checks == syncChecks(c)
        k == firstReturning(checks)
    IN  IF k > 0 THEN checks[k].verdict
        ELSE IF consultsClassifier(c) THEN selectionContinuation(c, s, d).verdict
        ELSE elementStage(c, d).verdict

\* C9: the verdict of a finished validateSelectionAsync call is the one
\* determined by the document as it was before the call suspended.
C9_VerdictFromSnapshot ==
    SelectionDone => vresult = verdictOn(call, detected, dom0)

\* C10: no validator call ends in a rejected promise, and every result
\* carries a reason.
C10_AlwaysVerdict ==
    /\ vpc # "rejected"
    /\ vpc = "done" => vresult.reason # ""

(***************************************************************************)
(* Part III: languageValidator.shouldTriggerTranslationAsync called on its *)
(* own, as the unit tests call it.  An absent contextText and an empty one *)
(* are both falsy at lines 63 and 106 and are both written <<>>.  Text     *)
(* lengths are counted in UTF-16 units, one per character of the texts     *)
(* explored here.                                                          *)
(***************************************************************************)
MaxRatioLen == 21    \* characters of a classified text
MaxHan == 2          \* Han characters at the head of a classified text

\* h Han characters, then k Kana characters, then Latin letters, n in all
HanText(h, k, n) ==
    [j \in 1..n |-> IF j <= h THEN "H" ELSE IF j <= h + k THEN "K" ELSE "a"]

ClassifiedTexts ==
    {HanText(h, k, n) : h \in 0..MaxHan, k \in 0..1, n \in 0..MaxRatioLen}
    \cup {HanText(3, 0, 50), HanText(3, 1, 50), <<"G">>, <<"a", "G">>,
          <<"C", "a">>, <<"C", "G", "K">>, <<"1", "$">>}

ClassifierTargets ==
    {<<"z", "h">>, <<"z", "h", "-", "C", "N">>, <<"Z", "H">>, <<"j", "a">>,
     <<"k", "o">>, <<"r", "u">>, <<"e", "n">>, <<"f", "r">>,
     <<"f", "r", "-", "C", "A">>, <<"F", "R">>, <<"e", "s">>, <<>>}

\* the calls: no context, a context of white space, a context of words
ClassifierCalls ==
    [fn : {"shouldTriggerTranslationAsync"}, text : ClassifiedTexts,
     targetLanguage : ClassifierTargets,
     contextText : {<<>>, <<" ">>, <<"a", " ", "a">>}]

\* lines 37-116 up to the return or the await of the detector
Classify ==
    /\ vpc = "call"
    /\ call.fn = "shouldTriggerTranslationAsync"
    /\ IF awaitsDetection(call.text, call.targetLanguage, call.contextText)
       THEN /\ vpc' = "detecting"
            /\ detectCalls' = detectCalls + 1
            /\ detectArg' = call.contextText
            /\ UNCHANGED answer
       ELSE /\ vpc' = "done"
            /\ answer' = [resolved |-> TRUE,
                           value |-> shouldTriggerTranslation(call.text, call.targetLanguage,
                                                              call.contextText, NoDetection)]
            /\ UNCHANGED <<detectCalls, detectArg>>
    /\ UNCHANGED <<call, dom, dom0, vresult, gates, detected, tap, word, evars, yvars>>

\* lines 64-73 and 107-113: the detector resolved
ClassifyResumes ==
    /\ vpc = "detecting"
    /\ call.fn = "shouldTriggerTranslationAsync"
    /\ \E s \in DetectionResults :
          /\ detected' = s
          /\ answer' = [resolved |-> TRUE,
                         value |-> shouldTriggerTranslation(call.text, call.targetLanguage,
                                                            call.contextText, s)]
    /\ vpc' = "done"
    /\ UNCHANGED <<call, dom, dom0, vresult, gates, detectCalls, detectArg, tap, word,
                   evars, yvars>>

\* the detector rejected: no try around the awaits of lines 64 and 107
ClassifyRejects ==
    /\ vpc = "detecting"
    /\ call.fn = "shouldTriggerTranslationAsync"
    /\ vpc' = "rejected"
    /\ UNCHANGED <<call, dom, dom0, vresult, gates, detectCalls, detected, evars, xvars, yvars>>

InitClassify ==
    /\ call \in ClassifierCalls
    /\ dom = PlainDom
    /\ dom0 = PlainDom
    /\ vpc = "call"
    /\ vresult = NoVerdict
    /\ gates = <<>>
    /\ detectCalls = 0
    /\ detected = NoDetection
    /\ ExpandOff
    /\ DirectIdle
    /\ RestIdle

NextClassify == Classify \/ ClassifyResumes \/ ClassifyRejects

SpecClassify == InitClassify /\ [][NextClassify]_vars

\* the call under examination and its normalized target
Classifying == call.fn = "shouldTriggerTranslationAsync"
ChineseTargets == {<<"z", "h">>, <<"z", "h", "-", "C", "N">>, <<"Z", "H">>}
hanCount(text) == Cardinality({j \in 1..Len(text) : text[j] = "H"})
hasKana(text) == \E j \in 1..Len(text) : text[j] = "K"

\* the direct call has returned for a Chinese target, a text without Kana
\* and no context
ChineseNoContext ==
    /\ Classifying
    /\ answer.resolved
    /\ call.targetLanguage \in ChineseTargets
    /\ ~hasKana(call.text)
    /\ call.contextText = <<>>

C12_RatioThresholdTwentyPercent ==
    ChineseNoContext =>
        /\ 5 * hanCount(call.text) > Len(call.text) => answer.value = FALSE
        /\ 5 * hanCount(call.text) < Len(call.text) => answer.value = TRUE
        /\ call.text = HanText(2, 0, 4) => answer.value = FALSE
        /\ call.text = HanText(1, 0, 6) => answer.value = TRUE

\* the direct call for a Chinese target on a text holding Kana
ChineseWithKana ==
    /\ Classifying
    /\ call.targetLanguage \in ChineseTargets
    /\ hasKana(call.text)

(***************************************************************************)
(* C13: for a Chinese target, a text holding at least one Hiragana or      *)
(* Katakana character returns true whatever its Han ratio and whatever the *)
(* context, and the call never consults language detection.                *)
(***************************************************************************)
C13_KanaAlwaysShown ==
    ChineseWithKana =>
        /\ vpc \in {"call", "done"}
        /\ detectCalls = 0
        /\ vpc = "done" => answer = [resolved |-> TRUE, value |-> TRUE]

\* returned true for two Han characters and one Kana (ratio 2/3) with a
\* context of words
C13_Witness ==
    /\ ChineseWithKana
    /\ vpc = "done"
    /\ call.text = HanText(2, 1, 3)
    /\ call.contextText = <<"a", " ", "a">>
    /\ answer.value = TRUE

\* the direct call for a Chinese target on a text that settles nothing:
\* no Kana and a Han ratio not above the threshold
ChineseInconclusive ==
    /\ Classifying
    /\ call.targetLanguage \in ChineseTargets
    /\ ~hasKana(call.text)
    /\ 20 * hanCount(call.text) <= Len(call.text)

(***************************************************************************)
(* C14: for a Chinese target and an inconclusive text (no Kana, ratio not  *)
(* above the threshold) the result is false exactly when the context is    *)
(* non-empty and detection on the context reported zh, and true otherwise  *)
(* (no context, any other detected code, or null).  Detection is invoked   *)
(* at most once, on the context, and only in this inconclusive case.       *)
(***************************************************************************)
C14_ContextDecidesInconclusive ==
    /\ Classifying /\ call.targetLanguage \in ChineseTargets =>
          /\ detectCalls <= 1
          /\ detectCalls = 1 =>
                ChineseInconclusive /\ call.contextText # <<>>
                                    /\ detectArg = call.contextText
    /\ ChineseInconclusive /\ answer.resolved =>
          (answer.value = FALSE <=>
              /\ call.contextText # <<>>
              /\ detectCalls = 1
              /\ detected = [kind |-> "code", code |-> <<"z", "h">>])

\* a Latin word in a context detected as Chinese is suppressed
C14_Witness ==
    /\ ChineseInconclusive
    /\ answer = [resolved |-> TRUE, value |-> FALSE]
    /\ call.text = HanText(0, 0, 3)
    /\ call.contextText = <<"a", " ", "a">>
    /\ detected.code = <<"z", "h">>

\* targets dispatched on the script of the text alone
ScriptTargets == {<<"j", "a">>, <<"k", "o">>, <<"r", "u">>, <<"e", "n">>}

\* what a script-dispatched target answers for a text, by the text alone
ScriptAnswer(target, text) ==
    CASE target = <<"e", "n">> -> TRUE
      [] target = <<"j", "a">> -> ~hasKana(text)
      [] target = <<"k", "o">> -> \A j \in 1..Len(text) : text[j] # "G"
      [] target = <<"r", "u">> -> \A j \in 1..Len(text) : text[j] # "C"

(***************************************************************************)
(* C15: for the targets dispatched on script the result is a function of   *)
(* the text alone: en always returns true, ja returns false exactly when   *)
(* the text holds Kana, ko exactly when it holds Hangul, ru exactly when   *)
(* it holds Cyrillic; this holds for every context and the call never      *)
(* consults language detection.                                            *)
(***************************************************************************)
C15_ScriptTargetsIgnoreContext ==
    Classifying /\ call.targetLanguage \in ScriptTargets =>
        /\ vpc \in {"call", "done"}
        /\ detectCalls = 0
        /\ vpc = "done" =>
              answer = [resolved |-> TRUE,
                        value |-> ScriptAnswer(call.targetLanguage, call.text)]

\* a Korean target suppresses a Latin letter followed by Hangul, with a
\* context of words
C15_Witness ==
    /\ Classifying
    /\ vpc = "done"
    /\ call.targetLanguage = <<"k", "o">>
    /\ call.text = <<"a", "G">>
    /\ call.contextText = <<"a", " ", "a">>
    /\ answer = [resolved |-> TRUE, value |-> FALSE]

\* the targets that fall to the default case, each with the code it is
\* expected to be normalized to
OtherTargets ==
    {<<"f", "r">>, <<"f", "r", "-", "C", "A">>, <<"F", "R">>, <<"e", "s">>, <<>>}
ExpectedCode(target) ==
    CASE target \in {<<"f", "r">>, <<"f", "r", "-", "C", "A">>, <<"F", "R">>} -> <<"f", "r">>
      [] OTHER -> target

(***************************************************************************)
(* C16: for any other target code (after lower-casing and dropping the     *)
(* region subtag), a call with no or an empty context returns true without *)
(* detection; a call with a non-empty context calls detection exactly once *)
(* on the context and returns false exactly when the detected code equals  *)
(* the normalized target code.                                             *)
(***************************************************************************)
C16_OtherTargetsFollowDetection ==
    Classifying /\ call.targetLanguage \in OtherTargets =>
        IF call.contextText = <<>>
        THEN /\ vpc \in {"call", "done"}
             /\ detectCalls = 0
             /\ vpc = "done" => answer = [resolved |-> TRUE, value |-> TRUE]
        ELSE /\ vpc = "call" => detectCalls = 0
             /\ vpc # "call" => detectCalls = 1 /\ detectArg = call.contextText
             /\ answer.resolved =>
                   (answer.value = FALSE <=>
                       detected = [kind |-> "code",
                                   code |-> ExpectedCode(call.targetLanguage)])

\* target FR with a context detected as fr is suppressed
C16_Witness ==
    /\ Classifying
    /\ call.targetLanguage = <<"F", "R">>
    /\ call.contextText = <<" ">>
    /\ detectCalls = 1
    /\ detected.code = <<"f", "r">>
    /\ answer = [resolved |-> TRUE, value |-> FALSE]

\* the text a validator call extracts when it gets that far: the trimmed
\* text of the selection's range or of the word's range
TextUnderGesture ==
    IF call.fn = "validateSelectionAsync" THEN selectedText(call)
    ELSE sanitizedText(call)

\* a validator call whose gesture covers only digits, white space,
\* punctuation and symbols
ContentlessGesture ==
    /\ call.fn \in {"validateSelectionAsync", "validateSingleClickAsync"}
    /\ call.fn = "validateSelectionAsync" => call.selection = "range" /\ ~call.collapsed
    /\ call.fn = "validateSingleClickAsync" => call.wordRange
    /\ Len(TextUnderGesture) > 0
    /\ \A j \in 1..Len(TextUnderGesture) :
          TextUnderGesture[j] \in {"1", " ", "\n", ".", ",", "'", "-", "$"}

(***************************************************************************)
(* C17: a text that after trimming holds only digits, white space,         *)
(* punctuation and symbols is never reported valid, on any trigger path    *)
(* (icon, double-click word, double-click sentence, single click), and     *)
(* neither the language classifier nor language detection is invoked for   *)
(* it.                                                                     *)
(***************************************************************************)
C17_ContentlessNeverValid ==
    ContentlessGesture =>
        /\ vpc \in {"call", "done"}
        /\ detectCalls = 0
        /\ \A j \in 1..Len(gates) : gates[j] # "suppression"
        /\ vpc = "done" => ~vresult.isValid

\* a double click on digits and punctuation, every toggle on, stopped at
\* the contentless gate
C17_Witness ==
    /\ ContentlessGesture
    /\ vpc = "done"
    /\ call.trigger = "doubleClickWord"
    /\ vresult.reason = "Contentless selection skipped"
    /\ ~vresult.isValid

\* a single click, with both toggles on, that passes the event and the
\* modifier checks and whose target element is a link
ClickOnLink ==
    /\ call.fn = "validateSingleClickAsync"
    /\ call.settings.enableTapWord
    /\ call.settings.singleClickTranslate
    /\ call.event.button = 0
    /\ ~call.event.defaultPrevented
    /\ call.event.modifiers = {}
    /\ call.event.target.path[1].tag = "a"

(***************************************************************************)
(* C18: a single click whose target is an <a> element (primary button, not *)
(* default-prevented, no modifier, single-click translation enabled)       *)
(* yields isValid = false with the interactive-element reason, whatever    *)
(* text lies under the pointer; the word under the pointer is not resolved *)
(* and language detection is not performed.                                *)
(***************************************************************************)
C18_LinkClickIsInteractive ==
    ClickOnLink =>
        /\ vpc \in {"call", "done"}
        /\ detectCalls = 0
        /\ vpc = "done" =>
              /\ vresult = Verdict(FALSE, <<>>, FALSE, "Interactive element", FALSE)
              /\ \A j \in 1..Len(gates) :
                    gates[j] \notin {"wordRange", "invalidText", "wordTooLong",
                                     "contentless", "suppression"}

\* a click on a link that shows a text cursor, over a translatable word
C18_Witness ==
    /\ ClickOnLink
    /\ vpc = "done"
    /\ call.event.target.cursor = "text"
    /\ call.wordRange
    /\ call.rawText = <<"a", "'", "a">>
    /\ vresult.reason = "Interactive element"

\* a single click with another button, default-prevented, or with a
\* modifier key held
RejectedClickEvent ==
    /\ call.fn = "validateSingleClickAsync"
    /\ \/ call.event.button # 0
       \/ call.event.defaultPrevented
       \/ \E k \in {"ctrl", "alt", "meta", "shift"} : k \in call.event.modifiers

(***************************************************************************)
(* C19: validateSingleClickAsync returns an invalid verdict whenever the   *)
(* button is not the primary one, the event is default-prevented, or one   *)
(* of ctrl, alt, meta, shift is held; these checks come before the word is *)
(* resolved, so no caret lookup, no text extraction and no language        *)
(* detection take place for such an event.                                 *)
(***************************************************************************)
C19_EventChecksPrecedeWordLookup ==
    RejectedClickEvent =>
        /\ vpc \in {"call", "done"}
        /\ detectCalls = 0
        /\ vpc = "done" =>
              /\ ~vresult.isValid
              /\ vresult.text = <<>>
              /\ \A j \in 1..Len(gates) :
                    gates[j] \notin {"wordRange", "invalidText", "wordTooLong",
                                     "contentless", "suppression"}

\* a shift-click on a translatable word of plain text, both toggles on
C19_Witness ==
    /\ RejectedClickEvent
    /\ vpc = "done"
    /\ call.settings.enableTapWord
    /\ call.settings.singleClickTranslate
    /\ call.event.button = 0
    /\ call.event.modifiers = {"shift"}
    /\ call.event.target = PlainTarget
    /\ call.wordRange
    /\ call.rawText = <<"a", "'", "a">>
    /\ vresult.reason = "Modifier key pressed"

(***************************************************************************)
(* Part IV: tapWordDetector.getWordRangeFromPoint(x, y).  The tap carries  *)
(* what the browser answers for the point: the caret (none, in an element, *)
(* or at an offset of a text node) and the client rectangles of the word   *)
(* range there.  Offsets count from 0 as in the code; charAt(text, i) is   *)
(* text[i] ?? "".                                                          *)
(***************************************************************************)
MaxWordTextLen == 4    \* characters of the text node under the tap
MaxCoord == 9          \* client coordinates of the tap

\* WORD_CHAR_REGEX = /[A-Za-z0-9'-]/
WORD_CHAR_REGEX == ALNUM \cup {"'", "-"}

charAt(text, i) == IF i >= 0 /\ i < Len(text) THEN text[i + 1] ELSE ""

isWordChar(char) == char \in WORD_CHAR_REGEX

\* no word range
NullRange == [returned |-> TRUE, found |-> FALSE, start |-> 0, end |-> 0]

\* lines 78-81 with an if in place of the while
scanWordStartOneStep(text, start) ==
    IF start > 0 /\ isWordChar(charAt(text, start - 1)) THEN start - 1 ELSE start

RECURSIVE scanWordStart(_, _)
\* lines 78-81: while (start > 0 && isWordChar(text[start - 1])) start -= 1
scanWordStart(text, start) ==
    IF start > 0 /\ isWordChar(charAt(text, start - 1))
    THEN scanWordStart(text, start - 1)
    ELSE start

RECURSIVE scanWordEnd(_, _)
\* lines 83-86: while (end < text.length && isWordChar(text[end])) end += 1
scanWordEnd(text, end) ==
    IF end < Len(text) /\ isWordChar(charAt(text, end))
    THEN scanWordEnd(text, end + 1)
    ELSE end

\* lines 58-96; lines 70-72: a caret just behind a word steps back onto
\* the last character of the word
expandRangeToWord(t) ==
    IF t.container # "text" THEN NullRange
    ELSE IF Len(t.text) = 0 THEN NullRange
    ELSE LET index == IF t.offset > 0 /\ ~isWordChar(charAt(t.text, t.offset))
                                      /\ isWordChar(charAt(t.text, t.offset - 1))
                      THEN t.offset - 1
                      ELSE t.offset
             start == scanWordStart(t.text, index)
             end == scanWordEnd(t.text, index)
         IN  IF ~isWordChar(charAt(t.text, index)) THEN NullRange
             ELSE IF start = end THEN NullRange
             ELSE [returned |-> TRUE, found |-> TRUE, start |-> start, end |-> end]

HIT_TEST_PADDING_PX == 2

\* a hit test that compares the horizontal extent only
isPointInRectsHorizontally(x, y, rects) ==
    \E j \in 1..Len(rects) :
        /\ x >= rects[j].left - HIT_TEST_PADDING_PX
        /\ x <= rects[j].right + HIT_TEST_PADDING_PX

\* lines 98-110
isPointInRects(x, y, rects) ==
    \E j \in 1..Len(rects) :
        /\ x >= rects[j].left - HIT_TEST_PADDING_PX
        /\ x <= rects[j].right + HIT_TEST_PADDING_PX
        /\ y >= rects[j].top - HIT_TEST_PADDING_PX
        /\ y <= rects[j].bottom + HIT_TEST_PADDING_PX

\* lines 13-32; t.rects is wordRange.getClientRects()
getWordRangeFromPoint(t) ==
    IF t.container = "none" THEN NullRange
    ELSE IF ~expandRangeToWord(t).found THEN NullRange
    ELSE IF ~isPointInRects(t.x, t.y, t.rects) THEN NullRange
    ELSE expandRangeToWord(t)

\* client rectangles of a word range: none (the text is not rendered), one
\* line box, two line boxes of a word wrapped over two lines
RectLists ==
    {<<>>,
     <<[left |-> 4, right |-> 6, top |-> 4, bottom |-> 5]>>,
     <<[left |-> 6, right |-> 7, top |-> 2, bottom |-> 3],
       [left |-> 0, right |-> 1, top |-> 6, bottom |-> 7]>>}

\* no caret at the point; a caret in an element; a caret at any offset of
\* a text node of Latin letters, digits, apostrophes, hyphens, spaces and
\* Han, tapped on the padded corner of its rectangle and outside of it;
\* a caret inside a word tapped at any point, for every list of rectangles
Taps ==
    {[container |-> c, text |-> <<>>, offset |-> 0, x |-> 5, y |-> 5, rects |-> <<>>] :
         c \in {"none", "element"}}
    \cup UNION {[container : {"text"}, text : {t}, offset : 0..Len(t),
                 x : {8, 9}, y : {7},
                 rects : {<<[left |-> 4, right |-> 6, top |-> 4, bottom |-> 5]>>}] :
                    t \in UNION {[1..n -> {"a", "1", "'", "-", " ", "H"}] :
                                     n \in 0..MaxWordTextLen}}
    \cup [container : {"text"}, text : {<<"a", "a">>}, offset : {1},
          x : 0..MaxCoord, y : 0..MaxCoord, rects : RectLists]

ResolveWord ==
    /\ tap \in Taps
    /\ ~word.returned
    /\ word' = getWordRangeFromPoint(tap)
    /\ UNCHANGED <<tap, answer, detectArg, evars, vvars, yvars>>

InitWord ==
    /\ tap \in Taps
    /\ word = NoWord
    /\ answer = NoAnswer
    /\ detectArg = <<>>
    /\ ValidateIdle
    /\ ExpandOff
    /\ RestIdle

SpecWord == InitWord /\ [][ResolveWord]_vars

\* the caret of the tap lies in a text node and the call has returned
TapInText == word.returned /\ tap.container = "text"
WordChars == {"a", "1", "'", "-"}
WordAt(i) == i >= 0 /\ i < Len(tap.text) /\ tap.text[i + 1] \in WordChars

(***************************************************************************)
(* C20: whenever getWordRangeFromPoint returns a range [start, end) of the *)
(* text node t for a caret offset c: start < end, every character of       *)
(* t[start..end) is a word character [A-Za-z0-9'-], the character before   *)
(* start and the character at end (where they exist) are not word          *)
(* characters, and start <= c <= end.  It returns null when neither the    *)
(* character at c nor the character before c is a word character, and      *)
(* when the caret is not in a text node.                                   *)
(***************************************************************************)
C20_WordRangeIsMaximalWord ==
    word.returned =>
        /\ word.found =>
              /\ tap.container = "text"
              /\ 0 <= word.start /\ word.start < word.end /\ word.end <= Len(tap.text)
              /\ \A i \in word.start..(word.end - 1) : WordAt(i)
              /\ ~WordAt(word.start - 1)
              /\ ~WordAt(word.end)
              /\ word.start <= tap.offset /\ tap.offset <= word.end
        /\ tap.container # "text" => ~word.found
        /\ tap.container = "text" /\ ~WordAt(tap.offset) /\ ~WordAt(tap.offset - 1)
              => ~word.found

\* a caret just behind the word "a-1" that follows a space: the range is
\* [1, 4) and the caret is its end
C20_Witness ==
    /\ TapInText
    /\ tap.text = <<" ", "a", "-", "1">>
    /\ tap.offset = 4
    /\ word = [returned |-> TRUE, found |-> TRUE, start |-> 1, end |-> 4]

\* the tapped point lies in the j-th rectangle grown by 2 px on every side
InInflated(j) ==
    /\ tap.rects[j].left - 2 <= tap.x /\ tap.x <= tap.rects[j].right + 2
    /\ tap.rects[j].top - 2 <= tap.y /\ tap.y <= tap.rects[j].bottom + 2

(***************************************************************************)
(* C21: getWordRangeFromPoint(x, y) returns a range only if (x, y) lies    *)
(* inside at least one rendered rectangle of that range inflated by 2 px   *)
(* on every side, bounds included; when the range has no rectangle or the  *)
(* point is outside all of them the result is null.                        *)
(***************************************************************************)
C21_RangeOnlyUnderThePoint ==
    word.returned =>
        /\ word.found => \E j \in 1..Len(tap.rects) : InInflated(j)
        /\ tap.rects = <<>> => ~word.found
        /\ (\A j \in 1..Len(tap.rects) : ~InInflated(j)) => ~word.found

\* a tap exactly 2 px right of and 2 px below the rectangle (4..6, 4..5)
\* of the word returns the word
C21_Witness ==
    /\ word.returned
    /\ word.found
    /\ tap.text = <<"a", "a">>
    /\ Len(tap.rects) = 1
    /\ tap.x = 8
    /\ tap.y = 7

\* the children of the root that the input selection touches
SelectionChildren ==
    {k \in 1..Len(doc) : /\ RankLess(Rank(input.s), <<k, 3, 0>>)
                         /\ RankLess(<<k, 1, 0>>, Rank(input.e))}

\* the block that holds a boundary point: a block-level child, or 0 for
\* the root
BlockOf(p) == IF p.c # "root" /\ doc[p.i].kind = "block" THEN p.i ELSE 0

\* the selection lies in one block: both boundary points in one block-level
\* child, or both in the root with no block-level child touched
SelectionInOneBlock ==
    /\ SelectionChildren # {}
    /\ BlockOf(input.s) = BlockOf(input.e)
    /\ \A k \in SelectionChildren : doc[k].kind = "block" => BlockOf(input.s) = k

\* a block-level element boundary lies between the leaves of children a, b
BlockBetween(a, b) ==
    /\ a # b
    /\ \E m \in 1..Len(doc) :
          /\ (a <= m /\ m <= b) \/ (b <= m /\ m <= a)
          /\ doc[m].kind = "block"

\* the children of which the returned range holds at least one character
ResultChildren ==
    {k \in 1..Len(doc) :
        /\ safeStart.node <= k /\ k <= safeEnd.node
        /\ k = safeStart.node => safeStart.offset < Len(doc[k].text)
        /\ k = safeEnd.node => safeEnd.offset > 0
        /\ safeStart.node = safeEnd.node => safeStart.offset < safeEnd.offset}

(***************************************************************************)
(* C22: for a selection contained in one block, the range returned by      *)
(* expandRangeToSentence never includes text of a leaf that a block-level  *)
(* element boundary separates from the leaves of the selection, even when  *)
(* no terminator occurs between them.                                      *)
(***************************************************************************)
C22_NeverAcrossBlocks ==
    (pc = "done" /\ pass = 1 /\ SelectionInOneBlock) =>
        \A k \in ResultChildren : \A j \in SelectionChildren : ~BlockBetween(k, j)

(***************************************************************************)
(* Part V: the gesture handlers of the content script,                     *)
(* handleTextSelection (mouseup), handleDoubleClick (dblclick) and         *)
(* handleSingleClick (click).  Each handler awaits its validator once; a   *)
(* validator that does not reach the detection call resolves in the same   *)
(* task, so the handler completes before the next event is dispatched; a   *)
(* validator suspended at detectSourceLanguageAsync leaves the handler     *)
(* suspended while later events are handled.  gesture[g] is the g-th       *)
(* gesture of the page, icon the range the translation icon is shown for,  *)
(* translated the gestures that triggered a translation.                   *)
(***************************************************************************)
\* the range of the g-th gesture, as the icon's anchor
RangeOf(g) == IF g = 1 THEN "first" ELSE "second"

\* iconManager.showTranslationIcon(range, ...): the icon is shown for range
showTranslationIcon(range) == range

\* iconManager.removeTranslationIcon(): no icon is shown
removeTranslationIcon == "none"

\* handleDoubleClick lines 254-262: 1. Determine Intent (Sentence vs Word)
isSentenceMode(gs) ==
    LET sentenceModeEnabled == gs.call.settings.doubleClickSentenceTranslate
        triggerKey == gs.triggerKey
    IN  /\ sentenceModeEnabled
        /\ CASE triggerKey = "meta" -> "meta" \in gs.keys
             [] triggerKey \in {"option", "alt"} -> "alt" \in gs.keys
             [] triggerKey = "ctrl" -> "ctrl" \in gs.keys
             [] OTHER -> FALSE

\* the validator call the handler of gesture gs makes (lines 200, 232, 269)
validatorCall(gs) ==
    CASE gs.handler = "handleTextSelection" -> [gs.call EXCEPT !.trigger = "icon"]
      [] gs.handler = "handleDoubleClick" ->
            [gs.call EXCEPT !.trigger = IF isSentenceMode(gs) THEN "doubleClickSentence"
                                        ELSE "doubleClickWord"]
      [] OTHER -> gs.call

\* the validator up to its return or its await of the detection call:
\* the verdict, or NoVerdict when the call is suspended at detection
validatorStart(c, d) ==
    IF c.fn = "validateSelectionAsync"
    THEN LET checks == syncChecks(c)
             k == firstReturning(checks)
         IN  IF k > 0 THEN checks[k].verdict
             ELSE IF ~consultsClassifier(c) THEN elementStage(c, d).verdict
             ELSE IF awaitsDetection(selectedText(c), c.settings.targetLanguage,
                                     getSurroundingTextForDetection(c))
             THEN NoVerdict
             ELSE selectionContinuation(c, NoDetection, d).verdict
    ELSE LET checks == singleClickChecks(c)
             k == firstReturning(checks)
         IN  IF k > 0 THEN checks[k].verdict
             ELSE IF awaitsDetection(sanitizedText(c), c.settings.targetLanguage,
                                     c.contextText)
             THEN NoVerdict
             ELSE singleClickContinuation(c, NoDetection)

\* the validator's verdict once the detection call resolved with s
validatorResumed(c, s, d) ==
    IF c.fn = "validateSelectionAsync"
    THEN selectionContinuation(c, s, d).verdict
    ELSE singleClickContinuation(c, s)

\* handleTextSelection lines 202-224, after the await
afterTextSelection(g, validation) ==
    IF ~validation.isValid
    THEN /\ icon' = IF validation.shouldCleanup THEN removeTranslationIcon ELSE icon
         /\ UNCHANGED translated
    ELSE /\ icon' = showTranslationIcon(RangeOf(g))
         /\ UNCHANGED translated

\* handleSingleClick lines 234-243, after the await
afterSingleClick(g, validation) ==
    IF ~validation.isValid
    THEN UNCHANGED <<icon, translated>>
    ELSE /\ icon' = removeTranslationIcon
         /\ translated' = translated \cup {g}

\* handleDoubleClick lines 271-298, after the await
afterDoubleClick(g, validation) ==
    IF ~validation.isValid
    THEN /\ icon' = IF validation.shouldCleanup THEN removeTranslationIcon ELSE icon
         /\ UNCHANGED translated
    ELSE /\ icon' = removeTranslationIcon
         /\ translated' = translated \cup {g}

\* the number of gestures whose handler has run to its end
Completed == Cardinality({g \in DOMAIN gesture : gesture[g].pc = "done"})

\* the handler of gesture g runs from its await to its end
complete(g, validation) ==
    /\ CASE gesture[g].handler = "handleTextSelection" -> afterTextSelection(g, validation)
         [] gesture[g].handler = "handleDoubleClick" -> afterDoubleClick(g, validation)
         [] OTHER -> afterSingleClick(g, validation)
    /\ gesture' = [gesture EXCEPT ![g].pc = "done", ![g].verdict = validation,
                                  ![g].before = icon, ![g].after = icon',
                                  ![g].order = Completed + 1]

\* the event of gesture g is dispatched: its handler runs to its end, or
\* to the await of a validator suspended at detection
dispatch(g, handler) ==
    /\ gesture[g].pc = "waiting"
    /\ gesture[g].handler = handler
    /\ \A h \in 1..(g - 1) : gesture[h].pc # "waiting"
    /\ LET validation == validatorStart(validatorCall(gesture[g]), gesture[g].dom)
       IN  IF validation = NoVerdict
           THEN /\ gesture' = [gesture EXCEPT ![g].pc = "awaiting"]
                /\ UNCHANGED <<icon, translated>>
           ELSE complete(g, validation)

\* a mouseup event
HandleTextSelection ==
    /\ \E g \in DOMAIN gesture : dispatch(g, "handleTextSelection")
    /\ UNCHANGED <<colour, player, worker, evars, vvars, xvars>>

\* a dblclick event
HandleDoubleClick ==
    /\ \E g \in DOMAIN gesture : dispatch(g, "handleDoubleClick")
    /\ UNCHANGED <<colour, player, worker, evars, vvars, xvars>>

\* a click event
HandleSingleClick ==
    /\ \E g \in DOMAIN gesture : dispatch(g, "handleSingleClick")
    /\ UNCHANGED <<colour, player, worker, evars, vvars, xvars>>

\* the detection call of a suspended gesture resolves: the validator
\* returns and the handler runs to its end
ValidationResolves ==
    /\ \E g \in DOMAIN gesture, s \in DetectionResults :
          /\ gesture[g].pc = "awaiting"
          /\ complete(g, validatorResumed(validatorCall(gesture[g]), s, gesture[g].dom))
    /\ UNCHANGED <<colour, player, worker, evars, vvars, xvars>>

\* the detection call rejects: the validator's promise and the handler's
\* promise reject, the handler has no further effect
ValidationRejects ==
    /\ \E g \in DOMAIN gesture :
          /\ gesture[g].pc = "awaiting"
          /\ gesture' = [gesture EXCEPT ![g].pc = "rejected"]
    /\ UNCHANGED <<icon, translated, colour, player, worker, evars, vvars, xvars>>

\* the cached user settings of a gesture
GestureSettings ==
    [enableTapWord : BOOLEAN, showIcon : {TRUE}, doubleClickTranslateV2 : {TRUE},
     doubleClickSentenceTranslate : {TRUE}, singleClickTranslate : BOOLEAN,
     suppressNativeLanguage : BOOLEAN, targetLanguage : {<<"f", "r">>}]

\* a mouseup or a double click over a collapsed selection, a Latin
\* selection, a contentless selection
SelectionGestures ==
    [handler : {"handleTextSelection", "handleDoubleClick"},
     call : {c \in CollapsedCalls \cup RangeCalls :
                /\ c.trigger = "icon"
                /\ c.settings \in GestureSettings
                /\ c.rawText \in {<<>>, <<" ", "a", " ">>, <<"1", ".">>}
                /\ c.contextText = <<"a", " ", "a">>},
     keys : {{}, {"alt"}}, triggerKey : {"alt"},
     dom : {PlainDom, [PlainDom EXCEPT !.editable = TRUE]}]

\* a click on a Latin word or on digits, plain or with the ctrl key
ClickGestures ==
    [handler : {"handleSingleClick"},
     call : {c \in WordCalls :
                /\ c.settings \in GestureSettings
                /\ c.collapsed
                /\ c.rawText \in {<<"a", "'", "a">>, <<"1", "-">>}
                /\ c.contextText = <<"a", " ", "a">>
                /\ c.event \in {NoEvent, [NoEvent EXCEPT !.modifiers = {"ctrl"}]}},
     keys : {{}}, triggerKey : {"alt"}, dom : {PlainDom}]

\* a gesture not yet made
Waiting(gs) ==
    [handler |-> gs.handler, call |-> gs.call, keys |-> gs.keys,
     triggerKey |-> gs.triggerKey, dom |-> gs.dom, pc |-> "waiting",
     verdict |-> NoVerdict, before |-> "none", after |-> "none", order |-> 0]

InitHandle ==
    /\ \E first, second \in {gs \in SelectionGestures \cup ClickGestures :
                                gs.handler = "handleTextSelection" => gs.keys = {}} :
          gesture = <<Waiting(first), Waiting(second)>>
    /\ icon \in {"none", "earlier"}
    /\ translated = {}
    /\ colour = <<>>
    /\ player = <<>>
    /\ worker = <<>>
    /\ ExpandOff
    /\ ValidateIdle
    /\ DirectIdle

NextHandle ==
    \/ HandleTextSelection
    \/ HandleDoubleClick
    \/ HandleSingleClick
    \/ ValidationResolves
    \/ ValidationRejects

SpecHandle == InitHandle /\ [][NextHandle]_vars

\* both gestures were selection gestures and the earlier one completed
\* after the later one
LateEarlier ==
    /\ gesture # <<>>
    /\ gesture[1].handler = "handleTextSelection"
    /\ gesture[2].handler = "handleTextSelection"
    /\ gesture[1].pc = "done"
    /\ gesture[2].pc = "done"
    /\ gesture[1].order > gesture[2].order

\* C23: when the validation of an earlier selection gesture completes after
\* that of a later one, the icon is as the later gesture left it: it is not
\* shown for the earlier range and the later gesture's icon is not removed
C23_LaterGestureDecidesIcon ==
    LateEarlier => /\ icon # RangeOf(1)
                   /\ icon = gesture[2].after

\* gesture g's handler ran to its end on an invalid verdict
RejectedGesture(g) ==
    /\ gesture # <<>>
    /\ gesture[g].pc = "done"
    /\ ~gesture[g].verdict.isValid

\* C27: a handler that ends on an invalid verdict has triggered no
\* translation; it has removed the icon when the verdict's shouldCleanup is
\* true and has left the icon as it was when shouldCleanup is false
C27_CleanupFollowsVerdict ==
    \A g \in DOMAIN gesture :
        RejectedGesture(g) =>
            /\ g \notin translated
            /\ gesture[g].verdict.shouldCleanup => gesture[g].after = "none"
            /\ ~gesture[g].verdict.shouldCleanup => gesture[g].after = gesture[g].before

(***************************************************************************)
(* Part VI: colorUtils.addOpacityToHex.  A colour is a sequence of         *)
(* one-character strings; an opacity is a number of thousandths, so that   *)
(* 500 is 0.5 and 1500 is 1.5.                                             *)
(***************************************************************************)
MaxHexLen == 8

\* the digits Number.prototype.toString(16) writes
HEX_DIGITS == <<"0", "1", "2", "3", "4", "5", "6", "7", "8", "9",
                "a", "b", "c", "d", "e", "f">>

\* line 23: [0-9A-Fa-f]
isHexDigit(ch) ==
    ch \in {"0", "1", "2", "3", "4", "5", "6", "7", "8", "9",
            "A", "B", "C", "D", "E", "F", "a", "b", "c", "d", "e", "f"}

\* String.prototype.toUpperCase on the characters of a colour
toUpperCase(s) ==
    [j \in 1..Len(s) |->
        CASE s[j] = "a" -> "A"
          [] s[j] = "b" -> "B"
          [] s[j] = "c" -> "C"
          [] s[j] = "d" -> "D"
          [] s[j] = "e" -> "E"
          [] s[j] = "f" -> "F"
          [] OTHER      -> s[j]]

\* n.toString(16) for a non-negative integer
RECURSIVE toString16(_)
toString16(n) ==
    IF n < 16 THEN <<HEX_DIGITS[n + 1]>>
    ELSE toString16(n \div 16) \o <<HEX_DIGITS[(n % 16) + 1]>>

\* s.padStart(n, ch)
padStart(s, n, ch) ==
    IF Len(s) >= n THEN s ELSE [j \in 1..(n - Len(s)) |-> ch] \o s

\* lines 41-47 without the padding to two digits
alphaHexUnpadded(opacity) ==
    LET safeOpacity == Max({0, Min({1000, opacity})})
        alphaInt == (2 * safeOpacity * 255 + 1000) \div 2000
    IN  toUpperCase(toString16(alphaInt))

\* lines 41-47: the clamped opacity as a two-digit upper-case hex number;
\* Math.round rounds a half upwards
alphaHex(opacity) ==
    LET safeOpacity == Max({0, Min({1000, opacity})})
        alphaInt == (2 * safeOpacity * 255 + 1000) \div 2000
    IN  toUpperCase(padStart(toString16(alphaInt), 2, "0"))

\* lines 13-50
addOpacityToHex(color, opacity) ==
    IF Len(color) = 0 \/ color[1] # "#" THEN color
    ELSE LET hex == SubSeq(color, 2, Len(color))
             fullHex == IF Len(hex) = 3
                        THEN [j \in 1..6 |-> hex[(j + 1) \div 2]]
                        ELSE hex
         IN  IF ~(Len(hex) > 0 /\ \A j \in 1..Len(hex) : isHexDigit(hex[j]))
             THEN color
             ELSE IF Len(fullHex) # 6 THEN color
             ELSE <<"#">> \o fullHex \o alphaHex(opacity)

\* sequences of upper-case and lower-case hex digits of up to n characters
RECURSIVE HexBodies(_)
HexBodies(n) ==
    IF n = 0 THEN {<<>>}
    ELSE HexBodies(n - 1)
         \cup {b \o <<ch>> : b \in {x \in HexBodies(n - 1) : Len(x) = n - 1},
                             ch \in {"F", "a"}}

\* colours with and without the leading '#', of every length up to
\* MaxHexLen digits, with digits of both cases, with a character that is no
\* hex digit, with a second '#'
Colours ==
    {p \o b : p \in {<<>>, <<"#">>}, b \in HexBodies(MaxHexLen)}
    \cup {<<"#", "0", "9", "c">>, <<"#", "Z", "Z", "Z">>, <<"#", "F", "F", "Z", "F", "F", "F">>,
          <<"#", "#", "F", "F", "F">>, <<"#", "F", "F", "F", "F", "F", "F", " ">>}

\* opacities below 0, at the bounds, rounding to 00 and to 01, at a half,
\* above 1
Opacities == {-500, 0, 1, 2, 500, 900, 999, 1000, 1500}

InitColour ==
    /\ \E c \in Colours, o1 \in Opacities, o2 \in {0, 500, 1500} :
          colour = [pc |-> "start", color |-> c, o1 |-> o1, o2 |-> o2,
                    once |-> <<>>, twice |-> <<>>]
    /\ gesture = <<>>
    /\ icon = "none"
    /\ translated = {}
    /\ player = <<>>
    /\ worker = <<>>
    /\ ExpandOff
    /\ ValidateIdle
    /\ DirectIdle

\* addOpacityToHex(color, o1)
AddOpacity ==
    /\ colour.pc = "start"
    /\ colour' = [colour EXCEPT !.pc = "once",
                                !.once = addOpacityToHex(colour.color, colour.o1)]
    /\ UNCHANGED <<gesture, icon, translated, player, worker, evars, vvars, xvars>>

\* addOpacityToHex applied to the colour it returned, with o2
AddOpacityAgain ==
    /\ colour.pc = "once"
    /\ colour' = [colour EXCEPT !.pc = "twice",
                                !.twice = addOpacityToHex(colour.once, colour.o2)]
    /\ UNCHANGED <<gesture, icon, translated, player, worker, evars, vvars, xvars>>

NextColour ==
    \/ AddOpacity
    \/ AddOpacityAgain

SpecColour == InitColour /\ [][NextColour]_vars

\* '#' followed by exactly 3 or exactly 6 hex digits
ShortOrFullHex(c) ==
    /\ Len(c) \in {4, 7}
    /\ c[1] = "#"
    /\ \A j \in 2..Len(c) : isHexDigit(c[j])

\* the value of an upper-case hex digit
UpperHexValue(ch) ==
    CHOOSE v \in 0..15 : <<"0", "1", "2", "3", "4", "5", "6", "7", "8", "9",
                           "A", "B", "C", "D", "E", "F">>[v + 1] = ch

\* s is '#', the six digits of colour c, and two upper-case hex digits whose
\* value is 255 times the opacity clamped to [0, 1], rounded
WithAlpha(s, c, opacity) ==
    LET clamped == IF opacity < 0 THEN 0 ELSE IF opacity > 1000 THEN 1000 ELSE opacity
        digits == {"0", "1", "2", "3", "4", "5", "6", "7", "8", "9",
                   "A", "B", "C", "D", "E", "F"}
    IN  /\ Len(s) = 9
        /\ s[1] = "#"
        /\ \A j \in 1..6 : s[j + 1] = IF Len(c) = 7 THEN c[j + 1] ELSE c[((j + 1) \div 2) + 1]
        /\ s[8] \in digits
        /\ s[9] \in digits
        /\ LET alpha == 16 * UpperHexValue(s[8]) + UpperHexValue(s[9])
           IN  /\ 2000 * alpha <= 510 * clamped + 1000
               /\ 510 * clamped + 1000 < 2000 * (alpha + 1)

\* C24: addOpacityToHex returns its input unless the input is '#' and exactly
\* 3 or 6 hex digits, and then '#', the six digits and the two-digit
\* upper-case alpha of the clamped opacity; applied to its own result with
\* any opacity it returns that result
C24_AlphaAppendedOnce ==
    /\ colour # <<>> /\ colour.pc \in {"once", "twice"} =>
          IF ShortOrFullHex(colour.color)
          THEN WithAlpha(colour.once, colour.color, colour.o1)
          ELSE colour.once = colour.color
    /\ colour # <<>> /\ colour.pc = "twice" => colour.twice = colour.once

C24_Witness ==
    /\ colour # <<>>
    /\ colour.pc = "twice"
    /\ colour.color = <<"#", "a", "F", "a">>
    /\ colour.o1 = 2
    /\ colour.once = <<"#", "a", "a", "F", "F", "a", "a", "0", "1">>
    /\ colour.o2 = 500

(***************************************************************************)
(* Claims about the two expansion loops of expandRangeToSentence.          *)
(***************************************************************************)
\* lines 92-99: the soft limits as clamped before the first loop
InitialSafeStart ==
    clampStart(findSentenceStartWithin(root, startPos.node, startPos.offset, allTerminators),
               hardStart)

InitialSafeEnd ==
    clampEnd(findSentenceEndWithin(root, endPos.node, endPos.offset, allTerminators),
             hardEnd)

\* C25: the left expansion is a fallback: the returned start lies before the
\* initial clamped soft start only if the returned end is the hard end
C25_LeftOnlyAfterRightExhausted ==
    pc = "done" /\ comparePositions(safeStart, InitialSafeStart) < 0 => safeEnd = hardEnd

C25_Witness ==
    /\ pc = "done"
    /\ comparePositions(safeStart, InitialSafeStart) < 0
    /\ safeEnd = hardEnd
    /\ comparePositions(InitialSafeEnd, hardEnd) < 0

\* the calls for a caret (a collapsed range) in a single text node of Latin
\* letters, soft and hard terminators, and in a document of text nodes
InitLoops ==
    /\ InitExpand
    /\ input.s = input.e
    /\ Len(doc) = 1 => \A j \in 1..Len(doc[1].text) : doc[1].text[j] \in {"a", ",", "."}
    /\ Len(doc) > 1 => \A j \in 1..Len(doc) : doc[j].kind = "text"

\* expandRangeToSentence with every started call running on
SpecExpandFair == InitLoops /\ [][NextExpand]_vars /\ WF_vars(NextExpand)

\* an iteration that stays in its loop has moved its end of the range
\* strictly outwards to a position short of the hard limit; an iteration
\* that leaves its loop with another position has put it on the hard limit
LoopStep ==
    /\ pc = "right" /\ pc' = "right" =>
          /\ comparePositions(safeEnd', safeEnd) > 0
          /\ comparePositions(safeEnd', hardEnd) < 0
    /\ pc = "right" /\ pc' # "right" => safeEnd' = safeEnd \/ safeEnd' = hardEnd
    /\ pc = "left" /\ pc' = "left" =>
          /\ comparePositions(safeStart', safeStart) < 0
          /\ comparePositions(safeStart', hardStart) > 0
    /\ pc = "left" /\ pc' # "left" => safeStart' = safeStart \/ safeStart' = hardStart

\* C26: expandRangeToSentence terminates: every iteration of either loop
\* leaves the loop or moves strictly towards the hard limit without
\* reaching it, and every call returns
C26_LoopsEnd == [][LoopStep]_vars /\ <>(pc = "done")

C26_Witness ==
    /\ pc = "left"
    /\ comparePositions(safeStart, InitialSafeStart) < 0
    /\ comparePositions(hardStart, safeStart) < 0
    /\ comparePositions(InitialSafeEnd, safeEnd) < 0

\* the text of the range a finished call returns
ReturnedText == extractTextBetween(safeStart, safeEnd)

\* C28: a returned range whose text is still too short (fewer than
\* MIN_CJK_CHARS characters with a CJK character, fewer than MIN_WORD_COUNT
\* words otherwise) is the hard-limit span
C28_ShortMeansHardSpan ==
    pc = "done" /\ isSegmentShort(ReturnedText) =>
        safeStart = hardStart /\ safeEnd = hardEnd

C28_Witness ==
    /\ pc = "done"
    /\ isSegmentShort(ReturnedText)
    /\ Len(trim(ReturnedText)) > 0
    /\ safeStart = hardStart
    /\ safeEnd = hardEnd
    /\ comparePositions(hardStart, InitialSafeStart) < 0
    /\ comparePositions(InitialSafeEnd, hardEnd) < 0

(***************************************************************************)
(* Part VII: the offscreen audio player (9_offscreen/offscreen.ts).        *)
(* player.audios are the Audio elements constructed so far, in order;      *)
(* an element is "paused" (constructed, blocked or paused), "playing"      *)
(* (un-paused by play()), "ended" or "failed"; handlers tells whether its  *)
(* onended and onerror are installed, pc whether the handlePlayAudio call  *)
(* that made it still awaits audio.play().  currentAudio is an index into  *)
(* audios, 0 for null.  last records the last message or callback.         *)
(***************************************************************************)
MaxAudio == 3

\* lines 13-17: stopAndCleanupAudio(audio) on the a-th element
stopAndCleanupAudio(audios, a) ==
    [audios EXCEPT ![a].handlers = FALSE,
                   ![a].state = IF @ = "playing" THEN "paused" ELSE @]

\* lines 19-23 without the test of line 20
clearCurrentAudioAlways(current, a) == 0

\* lines 19-23: clearCurrentAudioIfMatch(audio), the new value of currentAudio
clearCurrentAudioIfMatch(current, a) == IF current = a THEN 0 ELSE current

InitPlayer ==
    /\ player = [audios |-> <<>>, currentAudio |-> 0,
                 last |-> [op |-> "none", audio |-> 0, before |-> 0]]
    /\ gesture = <<>>
    /\ icon = "none"
    /\ translated = {}
    /\ colour = <<>>
    /\ worker = <<>>
    /\ ExpandOff
    /\ ValidateIdle
    /\ DirectIdle

\* lines 51-77: a PLAY_AUDIO message, up to the await of audio.play();
\* message.data is an object or missing, play() un-pauses the element or
\* is refused by the platform
HandlePlayAudio ==
    /\ Len(player.audios) < MaxAudio
    /\ \E data \in {"audio", "missing"}, refused \in BOOLEAN :
          LET current == player.currentAudio
              stopped == IF current # 0 THEN stopAndCleanupAudio(player.audios, current)
                         ELSE player.audios
              audio == [state |-> IF refused THEN "paused" ELSE "playing",
                        handlers |-> TRUE, pc |-> "awaiting"]
          IN  IF data = "missing"
              THEN player' = [audios |-> stopped, currentAudio |-> 0,
                              last |-> [op |-> "PLAY_AUDIO", audio |-> 0, before |-> current]]
              ELSE player' = [audios |-> Append(stopped, audio),
                              currentAudio |-> Len(stopped) + 1,
                              last |-> [op |-> "PLAY_AUDIO", audio |-> Len(stopped) + 1,
                                        before |-> current]]
    /\ UNCHANGED <<gesture, icon, translated, colour, worker, evars, vvars, xvars>>

\* lines 77-79: audio.play() resolves, the call answers success
PlayResolves ==
    /\ \E a \in 1..Len(player.audios) :
          /\ player.audios[a].pc = "awaiting"
          /\ player.audios[a].state = "playing"
          /\ player' = [player EXCEPT !.audios[a].pc = "returned",
                                      !.last = [op |-> "resolved", audio |-> a,
                                                before |-> player.currentAudio]]
    /\ UNCHANGED <<gesture, icon, translated, colour, worker, evars, vvars, xvars>>

\* lines 81-84: audio.play() rejects for an element that was refused,
\* paused meanwhile or has failed; the call answers the error
PlayRejects ==
    /\ \E a \in 1..Len(player.audios) :
          /\ player.audios[a].pc = "awaiting"
          /\ player.audios[a].state # "playing"
          /\ player' = [player EXCEPT !.audios[a].pc = "returned",
                                      !.last = [op |-> "rejected", audio |-> a,
                                                before |-> player.currentAudio]]
    /\ UNCHANGED <<gesture, icon, translated, colour, worker, evars, vvars, xvars>>

\* lines 66-69: playback of an element reaches its end; its onended runs
\* when installed
AudioEnded ==
    /\ \E a \in 1..Len(player.audios) :
          /\ player.audios[a].state = "playing"
          /\ player' = [player EXCEPT
                !.audios[a].state = "ended",
                !.currentAudio = IF player.audios[a].handlers
                                 THEN clearCurrentAudioIfMatch(@, a) ELSE @,
                !.last = [op |-> "ended", audio |-> a, before |-> player.currentAudio]]
    /\ UNCHANGED <<gesture, icon, translated, colour, worker, evars, vvars, xvars>>

\* lines 71-75: the platform reports an error on an element, playing or
\* not; its onerror runs when installed
AudioError ==
    /\ \E a \in 1..Len(player.audios) :
          /\ player.audios[a].state # "failed"
          /\ player' = [player EXCEPT
                !.audios[a].state = "failed",
                !.currentAudio = IF player.audios[a].handlers
                                 THEN clearCurrentAudioIfMatch(@, a) ELSE @,
                !.last = [op |-> "error", audio |-> a, before |-> player.currentAudio]]
    /\ UNCHANGED <<gesture, icon, translated, colour, worker, evars, vvars, xvars>>

\* lines 87-94: a STOP_AUDIO message
HandleStopAudio ==
    /\ LET current == player.currentAudio
       IN  player' = [audios |-> IF current # 0
                                 THEN stopAndCleanupAudio(player.audios, current)
                                 ELSE player.audios,
                      currentAudio |-> 0,
                      last |-> [op |-> "STOP_AUDIO", audio |-> 0, before |-> current]]
    /\ UNCHANGED <<gesture, icon, translated, colour, worker, evars, vvars, xvars>>

NextPlayer ==
    \/ HandlePlayAudio
    \/ PlayResolves
    \/ PlayRejects
    \/ AudioEnded
    \/ AudioError
    \/ HandleStopAudio

SpecPlayer == InitPlayer /\ [][NextPlayer]_vars

\* C29: every element that plays is currentAudio, so at most one does; a
\* PLAY_AUDIO has stopped and unhooked the element that was current; an
\* ended or error callback of another element than currentAudio leaves
\* currentAudio as it was; after STOP_AUDIO currentAudio is null
C29_OnePlayingElement ==
    player # <<>> =>
        /\ \A a \in 1..Len(player.audios) :
              player.audios[a].state = "playing" => a = player.currentAudio
        /\ player.last.op = "PLAY_AUDIO" /\ player.last.before # 0 =>
              /\ player.audios[player.last.before].state # "playing"
              /\ ~player.audios[player.last.before].handlers
              /\ player.currentAudio # player.last.before
        /\ player.last.op \in {"ended", "error"} /\ player.last.audio # player.last.before =>
              player.currentAudio = player.last.before
        /\ player.last.op = "STOP_AUDIO" => player.currentAudio = 0

\* an element that ended earlier reports an error while a newer element is
\* current and playing, after the element between them was stopped
C29_Witness ==
    /\ player # <<>>
    /\ Len(player.audios) = 3
    /\ player.last.op = "error"
    /\ player.last.audio = 1
    /\ player.audios[1].handlers
    /\ player.audios[2].state = "paused"
    /\ ~player.audios[2].handlers
    /\ player.currentAudio = 3
    /\ player.audios[3].state = "playing"

(***************************************************************************)
(* Part VIII: OffscreenManager.playAudio in the background worker.         *)
(* worker.calls[c] is the position of the c-th playAudio call, document    *)
(* the state of the offscreen document at the platform: "none",            *)
(* "creating" (a createDocument call in flight) or "exists"; busyCreates   *)
(* are the calls that invoked createDocument while the document was not    *)
(* "none".  The platform refuses such a createDocument call.               *)
(***************************************************************************)
MaxCalls == 3

InitWorker ==
    /\ worker = [calls |-> [c \in 1..MaxCalls |-> "idle"], document |-> "none",
                 busyCreates |-> {}]
    /\ gesture = <<>>
    /\ icon = "none"
    /\ translated = {}
    /\ colour = <<>>
    /\ player = <<>>
    /\ ExpandOff
    /\ ValidateIdle
    /\ DirectIdle

\* lines 7-8 and 38-39: playAudio calls ensureOffscreenDocument, which
\* awaits chrome.offscreen.hasDocument()
PlayAudio ==
    /\ \E c \in 1..MaxCalls :
          /\ worker.calls[c] = "idle"
          /\ worker' = [worker EXCEPT !.calls[c] = "hasDocument"]
    /\ UNCHANGED <<gesture, icon, translated, colour, player, evars, vvars, xvars>>

\* lines 39-50: hasDocument() resolves; with a document the call goes on to
\* send its message, without one it invokes createDocument
EnsureOffscreenDocument ==
    /\ \E c \in 1..MaxCalls :
          /\ worker.calls[c] = "hasDocument"
          /\ LET hasDoc == worker.document = "exists"
             IN  IF hasDoc
                 THEN worker' = [worker EXCEPT !.calls[c] = "sendMessage"]
                 ELSE IF worker.document = "none"
                 THEN worker' = [worker EXCEPT !.calls[c] = "createDocument",
                                               !.document = "creating"]
                 ELSE worker' = [worker EXCEPT !.calls[c] = "refused",
                                               !.busyCreates = @ \cup {c}]
    /\ UNCHANGED <<gesture, icon, translated, colour, player, evars, vvars, xvars>>

\* lines 46-50 and 10-14: createDocument resolves, the document exists,
\* the call sends PLAY_AUDIO
CreateResolves ==
    /\ \E c \in 1..MaxCalls :
          /\ worker.calls[c] = "createDocument"
          /\ worker' = [worker EXCEPT !.calls[c] = "sendMessage", !.document = "exists"]
    /\ UNCHANGED <<gesture, icon, translated, colour, player, evars, vvars, xvars>>

\* lines 51-54: createDocument rejects, ensureOffscreenDocument throws
\* and playAudio rejects before sending anything
CreateRejects ==
    /\ \E c \in 1..MaxCalls :
          /\ worker.calls[c] = "refused"
          /\ worker' = [worker EXCEPT !.calls[c] = "createFailed"]
    /\ UNCHANGED <<gesture, icon, translated, colour, player, evars, vvars, xvars>>

\* lines 11-22: the answer to PLAY_AUDIO arrives; playAudio returns, or
\* throws when the answer reports a failure
SendResolves ==
    /\ \E c \in 1..MaxCalls, success \in BOOLEAN :
          /\ worker.calls[c] = "sendMessage"
          /\ worker' = [worker EXCEPT !.calls[c] = IF success THEN "played"
                                                   ELSE "playbackFailed"]
    /\ UNCHANGED <<gesture, icon, translated, colour, player, evars, vvars, xvars>>

NextWorker ==
    \/ PlayAudio
    \/ EnsureOffscreenDocument
    \/ CreateResolves
    \/ CreateRejects
    \/ SendResolves

SpecWorker == InitWorker /\ [][NextWorker]_vars

\* C30: createDocument is never invoked while the offscreen document exists
\* or is being created, and no playAudio call fails at the creation of the
\* document
C30_SingleCreation ==
    worker # <<>> =>
        /\ worker.busyCreates = {}
        /\ \A c \in 1..MaxCalls : worker.calls[c] # "createFailed"

====
